---- MODULE Spec2Model ----
(***************************************************************************)
(* A model of the Cost Governor (src/src/cost_governor.py): the live       *)
(* configuration file, its backup, the governor state file, the temp files *)
(* that both writers go through, and the governor's operations as          *)
(* processes that take one file-system step at a time.                     *)
(*                                                                         *)
(* Files are modelled at the level where the claims live: a directory maps *)
(* a path to an inode, an inode holds the sequence of blocks written so    *)
(* far, and a writer holds an open descriptor (inode and offset).          *)
(* Prices are in cents per million tokens so that they stay integers.      *)
(***************************************************************************)
EXTENDS Integers, Sequences, FiniteSets, TLC

VARIABLES
    dir,        \* path -> inode number, 0 when the path does not exist
    inodes,     \* inode number -> the blocks the file holds
    workspace,  \* bootstrap file name -> its character count, -1 when missing
    gatewayLog, \* the gateway log: whether it exists, and its lines
    pc,         \* per process: where it is in its current call
    config,     \* per process: self._config
    loc,        \* per process: the locals of the call in progress
    result,     \* per process: what the last finished call returned
    exitCode,   \* per process: the exit code the command line would give
    clock,      \* datetime.now(), as a logical clock
    budget,     \* how many more events the behaviour may hold
    recorded,   \* history: every baseline record_baseline has returned
    governed,   \* history: every result run_governor has returned
    applied,    \* history: what the last apply_config call saw and did
    saved,      \* history: what the last _save_state call saw and did
    watchdog,   \* the GatewayWatchdog object, its state file and its run_check call
    antiIdle,   \* the AntiIdlingSystem object and its last call
    loops       \* per periodic loop: its running flag and where its thread is

vars == <<dir, inodes, workspace, gatewayLog, pc, config, loc, result,
          exitCode, clock, budget, recorded, governed, applied, saved, watchdog,
          antiIdle, loops>>

----------------------------------------------------------------------------
(* Bounds of the model.                                                    *)

MaxEvents == 3       \* calls, I/O errors, edits and outside writes in one behaviour
MaxBaselineCalls == 22   \* record_baseline calls in SpecBaseline
MaxGovernCalls == 52     \* run_governor calls in SpecHistory
MaxRecs == 2         \* recommendations in one list given to _estimate_total_savings
MaxRetries == 2      \* the largest max_retries a GatewayWatchdog is constructed with
MaxChecks == 2       \* run_check calls in one behaviour
MaxLoopIterations == 2    \* iterations a periodic loop makes in a behaviour
MaxIdleEvents == 3   \* callbacks registered, activities logged and sleeps in one behaviour
BlockEntries == 2    \* list entries of the state file that fill one block

----------------------------------------------------------------------------
(* JSON values: strings, integers, null and dictionaries (a function from  *)
(* key to value).                                                          *)

JStr(s) == [t |-> "str", s |-> s]
JInt(n) == [t |-> "int", n |-> n]
JDict(f) == [t |-> "dict", m |-> f]
JNull == [t |-> "null"]
EmptyDict == JDict(<<>>)

Max2(a, b) == IF a >= b THEN a ELSE b
Min2(a, b) == IF a <= b THEN a ELSE b

\* the Python slice xs[-n:]
LastN(xs, n) == SubSeq(xs, Max2(1, Len(xs) - n + 1), Len(xs))

----------------------------------------------------------------------------
(* The cost table and the recommended defaults.                            *)

MODEL_COSTS ==
    [m \in {"claude-opus-4-6", "anthropic/claude-opus-4-6"} |-> 1500] @@
    [m \in {"claude-sonnet-4-6", "anthropic/claude-sonnet-4-6"} |-> 300] @@
    [m \in {"gpt-4o", "openai/gpt-4o"} |-> 250] @@
    [m \in {"claude-haiku-4-5", "anthropic/claude-haiku-4-5",
            "claude-haiku-4-5-20251001"} |-> 80] @@
    [m \in {"gpt-4o-mini", "openai/gpt-4o-mini", "gpt-mini"} |-> 15] @@
    [m \in {"ollama/llama3.3", "ollama/llama3.2", "ollama/mistral",
            "ollama/qwen2.5", "ollama/deepseek-r1"} |-> 0]

EXPENSIVE_MODELS == {m \in DOMAIN MODEL_COSTS : MODEL_COSTS[m] >= 1000}
MID_TIER_MODELS ==
    {m \in DOMAIN MODEL_COSTS : 10 <= MODEL_COSTS[m] /\ MODEL_COSTS[m] < 1000}
CHEAP_MODELS == {m \in DOMAIN MODEL_COSTS : MODEL_COSTS[m] < 10}

RECOMMENDED_BOOTSTRAP_MAX_CHARS == 8000
RECOMMENDED_BOOTSTRAP_TOTAL_MAX_CHARS == 30000
DEFAULT_BOOTSTRAP_MAX_CHARS == 20000
DEFAULT_BOOTSTRAP_TOTAL_MAX_CHARS == 150000
BigFileChars == 3000
MaxBaselines == 20
MaxHistory == 50
WatchdogHistory == 50
ActivityLogCap == 100
RecentActivities == 20
DayWindow == 86400

BOOTSTRAP_FILES ==
    <<"AGENTS.md", "SOUL.md", "TOOLS.md", "IDENTITY.md", "USER.md",
      "HEARTBEAT.md", "MEMORY.md", "BOOTSTRAP.md", "TASKLOG.md">>

----------------------------------------------------------------------------
(* Reading the configuration.                                              *)

RECURSIVE _get_nested(_, _, _)
_get_nested(obj, keys, default) ==
    IF keys = <<>> THEN obj
    ELSE IF obj.t # "dict" THEN default
    ELSE IF Head(keys) \notin DOMAIN obj.m THEN default
    ELSE IF obj.m[Head(keys)].t = "null" THEN default
    ELSE _get_nested(obj.m[Head(keys)], Tail(keys), default)

\* Python's truth value of a JSON value
Truthy(v) ==
    CASE v.t = "null" -> FALSE
      [] v.t = "str" -> v.s # ""
      [] v.t = "int" -> v.n # 0
      [] OTHER -> DOMAIN v.m # {}

\* the model named by the newest "agent model:" line of the log tail; a line
\* of the log is "" when it does not hold the marker and the model it names
\* when it does
RECURSIVE NewestModelLine(_)
NewestModelLine(lines) ==
    IF lines = <<>> THEN ""
    ELSE IF lines[Len(lines)] # "" THEN lines[Len(lines)]
    ELSE NewestModelLine(SubSeq(lines, 1, Len(lines) - 1))

_detect_current_model(cfg, log) ==
    LET model == _get_nested(cfg, <<"agents", "defaults", "model", "primary">>, JNull)
    IN  IF Truthy(model) THEN model.s
        ELSE IF log.exists /\ log.readable THEN NewestModelLine(log.lines)
        ELSE "unknown"

----------------------------------------------------------------------------
(* Measuring the bootstrap files.                                          *)

RECURSIVE SumChars(_, _)
SumChars(ws, names) ==
    IF names = <<>> THEN 0
    ELSE (IF ws[Head(names)] >= 0 THEN ws[Head(names)] ELSE 0)
         + SumChars(ws, Tail(names))

\* the stable sort by size, largest first, of the files that exist
RECURSIVE InsertBySize(_, _, _)
InsertBySize(ws, sorted, f) ==
    IF sorted = <<>> THEN <<f>>
    ELSE IF ws[Head(sorted)] >= ws[f]
         THEN <<Head(sorted)>> \o InsertBySize(ws, Tail(sorted), f)
         ELSE <<f>> \o sorted

RECURSIVE SortedFiles(_, _)
SortedFiles(ws, names) ==
    IF names = <<>> THEN <<>>
    ELSE LET rest == SortedFiles(ws, SubSeq(names, 1, Len(names) - 1))
             f == names[Len(names)]
         IN  IF ws[f] >= 0 THEN InsertBySize(ws, rest, f) ELSE rest

measure_bootstrap_files(cfg, ws) ==
    LET total == SumChars(ws, BOOTSTRAP_FILES)
    IN  [files |-> SortedFiles(ws, BOOTSTRAP_FILES),
         total_chars |-> total,
         total_est_tokens |-> total \div 4,
         configured_max_per_file |->
             _get_nested(cfg, <<"agents", "defaults", "bootstrapMaxChars">>,
                         JInt(DEFAULT_BOOTSTRAP_MAX_CHARS)).n,
         configured_total_max |->
             _get_nested(cfg, <<"agents", "defaults", "bootstrapTotalMaxChars">>,
                         JInt(DEFAULT_BOOTSTRAP_TOTAL_MAX_CHARS)).n]

----------------------------------------------------------------------------
(* Python's float is an IEEE 754 binary64.  A float that is not negative   *)
(* is [m, e], standing for m * 2^e, with m a natural number of at most 53  *)
(* significant bits kept as a sequence of limbs, least significant first.  *)

LimbBase == 32768
MantissaBits == 53

RECURSIVE Pow2(_)
Pow2(k) == IF k = 0 THEN 1 ELSE 2 * Pow2(k - 1)

RECURSIVE LTrim(_)
LTrim(a) == IF a # <<>> /\ a[Len(a)] = 0 THEN LTrim(SubSeq(a, 1, Len(a) - 1)) ELSE a

RECURSIVE LNat(_)
LNat(n) == IF n = 0 THEN <<>> ELSE <<n % LimbBase>> \o LNat(n \div LimbBase)

RECURSIVE LToInt(_)
LToInt(a) == IF a = <<>> THEN 0 ELSE Head(a) + LimbBase * LToInt(Tail(a))

Limb(a, i) == IF i <= Len(a) THEN a[i] ELSE 0

RECURSIVE LAddFrom(_, _, _, _)
LAddFrom(a, b, i, carry) ==
    IF i > Len(a) /\ i > Len(b)
    THEN IF carry = 0 THEN <<>> ELSE <<carry>>
    ELSE LET t == Limb(a, i) + Limb(b, i) + carry
         IN  <<t % LimbBase>> \o LAddFrom(a, b, i + 1, t \div LimbBase)

LAdd(a, b) == LAddFrom(a, b, 1, 0)

\* a - b for a >= b
RECURSIVE LSubFrom(_, _, _, _)
LSubFrom(a, b, i, borrow) ==
    IF i > Len(a) THEN <<>>
    ELSE LET t == Limb(a, i) - Limb(b, i) - borrow
         IN  IF t < 0 THEN <<t + LimbBase>> \o LSubFrom(a, b, i + 1, 1)
             ELSE <<t>> \o LSubFrom(a, b, i + 1, 0)

LSub(a, b) == LTrim(LSubFrom(a, b, 1, 0))

\* a * k for 0 <= k < LimbBase
RECURSIVE LMulSmallFrom(_, _, _, _)
LMulSmallFrom(a, k, i, carry) ==
    IF i > Len(a)
    THEN IF carry = 0 THEN <<>> ELSE <<carry>>
    ELSE LET t == a[i] * k + carry
         IN  <<t % LimbBase>> \o LMulSmallFrom(a, k, i + 1, t \div LimbBase)

LMulSmall(a, k) == IF k = 0 THEN <<>> ELSE LMulSmallFrom(a, k, 1, 0)

LShiftLimbs(a, q) == IF a = <<>> THEN <<>> ELSE [i \in 1..q |-> 0] \o a

RECURSIVE LMul(_, _)
LMul(a, b) ==
    IF b = <<>> THEN <<>>
    ELSE LAdd(LMulSmall(a, Head(b)), LShiftLimbs(LMul(a, Tail(b)), 1))

\* the quotient and the remainder of a by d, for 0 < d < LimbBase
RECURSIVE LDivSmallFrom(_, _, _, _)
LDivSmallFrom(a, d, i, rem) ==
    IF i = 0 THEN [q |-> <<>>, r |-> rem]
    ELSE LET t == rem * LimbBase + a[i]
             rest == LDivSmallFrom(a, d, i - 1, t % d)
         IN  [q |-> Append(rest.q, t \div d), r |-> rest.r]

LDivSmall(a, d) ==
    LET res == LDivSmallFrom(a, d, Len(a), 0)
    IN  [q |-> LTrim(res.q), r |-> res.r]

LShl(a, k) == LShiftLimbs(LMulSmall(a, Pow2(k % 15)), k \div 15)

LShr(a, k) ==
    IF k \div 15 >= Len(a) THEN <<>>
    ELSE LDivSmall(SubSeq(a, k \div 15 + 1, Len(a)), Pow2(k % 15)).q

RECURSIVE BitLenSmall(_)
BitLenSmall(n) == IF n = 0 THEN 0 ELSE 1 + BitLenSmall(n \div 2)

LBitLen(a) == IF a = <<>> THEN 0 ELSE 15 * (Len(a) - 1) + BitLenSmall(a[Len(a)])

LOdd(a) == a # <<>> /\ a[1] % 2 = 1

\* n * 2^e rounded to the nearest float, ties to the even mantissa
FRound(n, e) ==
    IF LBitLen(n) <= MantissaBits THEN [m |-> n, e |-> IF n = <<>> THEN 0 ELSE e]
    ELSE LET k == LBitLen(n) - MantissaBits
             withGuard == LShr(n, k - 1)
             sticky == n # LShl(withGuard, k - 1)
             kept == LShr(withGuard, 1)
             up == LOdd(withGuard) /\ (sticky \/ LOdd(kept))
         IN  [m |-> IF up THEN LAdd(kept, <<1>>) ELSE kept, e |-> e + k]

FInt(n) == [m |-> LNat(n), e |-> 0]

\* a / b for integers a >= 0 and 0 < b < LimbBase: the quotient to 70 binary
\* places and a last bit that says whether anything was left
FDivInt(a, b) ==
    LET res == LDivSmall(LShl(LNat(a), 70), b)
    IN  FRound(LAdd(LMulSmall(res.q, 2), IF res.r = 0 THEN <<>> ELSE <<1>>), -71)

\* x - y for x >= y
FSub(x, y) ==
    LET e == Min2(x.e, y.e)
    IN  FRound(LSub(LShl(x.m, x.e - e), LShl(y.m, y.e - e)), e)

FMul(x, y) == FRound(LMul(x.m, y.m), x.e + y.e)

\* a < b for limb numbers
RECURSIVE LLess(_, _)
LLess(a, b) ==
    IF Len(LTrim(a)) # Len(LTrim(b)) THEN Len(LTrim(a)) < Len(LTrim(b))
    ELSE IF LTrim(a) = <<>> THEN FALSE
    ELSE LET ta == LTrim(a)
             tb == LTrim(b)
             n == Len(ta)
         IN  IF ta[n] # tb[n] THEN ta[n] < tb[n]
             ELSE LLess(SubSeq(ta, 1, n - 1), SubSeq(tb, 1, n - 1))

\* x < y
FLess(x, y) ==
    LET e == Min2(x.e, y.e)
    IN  LLess(LShl(x.m, x.e - e), LShl(y.m, y.e - e))

RECURSIVE OddPart(_)
OddPart(b) == IF b % 2 = 0 THEN OddPart(b \div 2) ELSE b

RECURSIVE TwoExponent(_)
TwoExponent(b) == IF b % 2 = 0 THEN 1 + TwoExponent(b \div 2) ELSE 0

\* a / b for integers a >= 0 and b > 0 whose odd part is below LimbBase: the
\* division by the odd part, then an exact scaling by a power of two
FDiv(a, b) ==
    LET q == FDivInt(a, OddPart(b))
    IN  [m |-> q.m, e |-> IF q.m = <<>> THEN 0 ELSE q.e - TwoExponent(b)]

\* int(x): the integer part
FTrunc(x) == IF x.e >= 0 THEN LToInt(LShl(x.m, x.e)) ELSE LToInt(LShr(x.m, -x.e))

\* remaining = 1.0; for rec: remaining *= 1.0 - rec["savings_pct"] / 100.0
RECURSIVE Remaining(_)
Remaining(recommendations) ==
    IF recommendations = <<>> THEN FInt(1)
    ELSE LET rec == recommendations[Len(recommendations)]
             pct == FDivInt(rec.savings_pct, 100)
             before == Remaining(SubSeq(recommendations, 1, Len(recommendations) - 1))
         IN  \* 0.0 times anything here is 0.0
             IF before.m = <<>> THEN before ELSE FMul(before, FSub(FInt(1), pct))

\* min(95, int((1.0 - remaining) * 100)), and 0 for no recommendation
_estimate_total_savings(recommendations) ==
    IF recommendations = <<>> THEN 0
    ELSE Min2(95, FTrunc(FMul(FSub(FInt(1), Remaining(recommendations)), FInt(100))))

----------------------------------------------------------------------------
(* The audit: six independent rule checks.                                 *)

Finding(id, severity) == [id |-> id, severity |-> severity]
Recommendation(id, impact, pct, files) ==
    [id |-> id, impact |-> impact, savings_pct |-> pct, files |-> files]

RECURSIVE FilterBig(_, _)
FilterBig(ws, files) ==
    IF files = <<>> THEN <<>>
    ELSE (IF ws[Head(files)] > BigFileChars THEN <<Head(files)>> ELSE <<>>)
         \o FilterBig(ws, Tail(files))

\* a check that takes every priced model that is not cheap for an expensive one
ModelCheckNotCheap(current_model) ==
    IF current_model \in EXPENSIVE_MODELS \cup MID_TIER_MODELS
    THEN [f |-> <<Finding("expensive_model", "critical")>>,
          r |-> <<Recommendation("switch_default_model", "high", 80, <<>>)>>]
    ELSE [f |-> <<>>, r |-> <<>>]

ModelCheck(current_model) ==
    IF current_model \in EXPENSIVE_MODELS
    THEN [f |-> <<Finding("expensive_model", "critical")>>,
          r |-> <<Recommendation("switch_default_model", "high", 80, <<>>)>>]
    ELSE IF current_model \in MID_TIER_MODELS
    THEN [f |-> <<Finding("mid_tier_model", "info")>>, r |-> <<>>]
    ELSE [f |-> <<>>, r |-> <<>>]

BloatCheck(ws, bootstrap) ==
    IF bootstrap.total_chars > RECOMMENDED_BOOTSTRAP_TOTAL_MAX_CHARS
    THEN LET big_files == FilterBig(ws, bootstrap.files)
         IN  [f |-> <<Finding("bootstrap_bloat", "warning")>>,
              r |-> IF big_files # <<>>
                    THEN <<Recommendation("shrink_bootstrap", "medium", 20,
                                          SubSeq(big_files, 1, Min2(3, Len(big_files))))>>
                    ELSE <<>>]
    ELSE [f |-> <<>>, r |-> <<>>]

CapCheck(cfg) ==
    LET current_total_max ==
            _get_nested(cfg, <<"agents", "defaults", "bootstrapTotalMaxChars">>,
                        JInt(DEFAULT_BOOTSTRAP_TOTAL_MAX_CHARS)).n
    IN  IF current_total_max > RECOMMENDED_BOOTSTRAP_TOTAL_MAX_CHARS
        THEN [f |-> <<Finding("high_bootstrap_cap", "warning")>>, r |-> <<>>]
        ELSE [f |-> <<>>, r |-> <<>>]

CompactionMode(cfg) ==
    _get_nested(cfg, <<"agents", "defaults", "compaction", "mode">>, JStr("safeguard"))

CompactionCheck(cfg) ==
    IF CompactionMode(cfg) = JStr("safeguard")
    THEN [f |-> <<Finding("weak_compaction", "warning")>>,
          r |-> <<Recommendation("aggressive_compaction", "medium", 30, <<>>)>>]
    ELSE [f |-> <<>>, r |-> <<>>]

HeartbeatCheck(cfg, current_model) ==
    LET heartbeat_model ==
            _get_nested(cfg, <<"agents", "defaults", "heartbeat", "model">>, JNull)
    IN  IF Truthy(heartbeat_model) /\ heartbeat_model.t = "str"
           /\ heartbeat_model.s \in EXPENSIVE_MODELS
        THEN [f |-> <<Finding("expensive_heartbeat", "warning")>>,
              r |-> <<Recommendation("cheap_heartbeat", "medium", 15, <<>>)>>]
        ELSE IF heartbeat_model = JNull /\ current_model \in EXPENSIVE_MODELS
        THEN [f |-> <<Finding("heartbeat_inherits_expensive", "warning")>>,
              r |-> <<Recommendation("set_heartbeat_model", "medium", 15, <<>>)>>]
        ELSE [f |-> <<>>, r |-> <<>>]

ConcurrencyCheck(cfg) ==
    LET max_concurrent ==
            _get_nested(cfg, <<"agents", "defaults", "maxConcurrent">>, JInt(1)).n
        max_subagents ==
            _get_nested(cfg, <<"agents", "defaults", "subagents", "maxConcurrent">>,
                        JInt(1)).n
    IN  IF max_concurrent > 2 \/ max_subagents > 4
        THEN [f |-> <<Finding("high_concurrency", "info")>>, r |-> <<>>]
        ELSE [f |-> <<>>, r |-> <<>>]

audit(cfg, ws, log) ==
    LET current_model == _detect_current_model(cfg, log)
        bootstrap == measure_bootstrap_files(cfg, ws)
        c1 == ModelCheck(current_model)
        c2 == BloatCheck(ws, bootstrap)
        c3 == CapCheck(cfg)
        c4 == CompactionCheck(cfg)
        c5 == HeartbeatCheck(cfg, current_model)
        c6 == ConcurrencyCheck(cfg)
    IN  [current_model |-> current_model,
         model_cost_per_m_input |->
             IF current_model \in DOMAIN MODEL_COSTS THEN MODEL_COSTS[current_model] ELSE 0,
         bootstrap_total_chars |-> bootstrap.total_chars,
         bootstrap_est_tokens |-> bootstrap.total_est_tokens,
         findings |-> c1.f \o c2.f \o c3.f \o c4.f \o c5.f \o c6.f,
         recommendations |-> c1.r \o c2.r \o c3.r \o c4.r \o c5.r \o c6.r,
         estimated_savings_pct |->
             _estimate_total_savings(c1.r \o c2.r \o c3.r \o c4.r \o c5.r \o c6.r)]

----------------------------------------------------------------------------
(* The optimizer and the merge.                                            *)

Defaults(f) == JDict("agents" :> JDict("defaults" :> JDict(f)))

AggressivePatch ==
    Defaults(("model" :> JDict("primary" :> JStr("ollama/llama3.3")))
          @@ ("compaction" :> JDict("mode" :> JStr("default")))
          @@ ("bootstrapMaxChars" :> JInt(6000))
          @@ ("heartbeat" :> JDict(("model" :> JStr("ollama/llama3.3"))
                                @@ ("every" :> JStr("6h")))))

\* a balanced patch that leaves the compaction mode as it is
BalancedPatchKeepsCompaction ==
    Defaults(("model" :> JDict("primary" :> JStr("claude-haiku-4-5")))
          @@ ("bootstrapMaxChars" :> JInt(RECOMMENDED_BOOTSTRAP_MAX_CHARS))
          @@ ("heartbeat" :> JDict(("model" :> JStr("claude-haiku-4-5"))
                                @@ ("every" :> JStr("4h")))))

BalancedPatch ==
    Defaults(("model" :> JDict("primary" :> JStr("claude-haiku-4-5")))
          @@ ("compaction" :> JDict("mode" :> JStr("default")))
          @@ ("bootstrapMaxChars" :> JInt(RECOMMENDED_BOOTSTRAP_MAX_CHARS))
          @@ ("heartbeat" :> JDict(("model" :> JStr("claude-haiku-4-5"))
                                @@ ("every" :> JStr("4h")))))

\* a conservative patch that pins the heartbeat model whatever the model is
ConservativePatchAlwaysHeartbeat(current_model) ==
    Defaults(("compaction" :> JDict("mode" :> JStr("default")))
          @@ ("bootstrapMaxChars" :> JInt(RECOMMENDED_BOOTSTRAP_MAX_CHARS))
          @@ ("heartbeat" :> JDict("model" :> JStr("claude-haiku-4-5"))))

ConservativePatch(current_model) ==
    Defaults(("compaction" :> JDict("mode" :> JStr("default")))
          @@ ("bootstrapMaxChars" :> JInt(RECOMMENDED_BOOTSTRAP_MAX_CHARS))
          @@ (IF current_model \in EXPENSIVE_MODELS
              THEN "heartbeat" :> JDict("model" :> JStr("claude-haiku-4-5"))
              ELSE <<>>))

generate_optimized_config(cfg, ws, log, strategy) ==
    LET audit_result == audit(cfg, ws, log)
    IN  [op |-> "generate_optimized_config",
         strategy |-> strategy,
         patch |-> CASE strategy = "aggressive" -> AggressivePatch
                     [] strategy = "balanced" -> BalancedPatch
                     [] strategy = "conservative" ->
                            ConservativePatch(_detect_current_model(cfg, log))
                     [] OTHER -> EmptyDict,
         current_model |-> audit_result.current_model,
         estimated_savings_pct |-> audit_result.estimated_savings_pct]

\* dict.update: an override's value replaces the base's, dictionary or not
_deep_merge_shallow(base, override) ==
    [key \in DOMAIN base \cup DOMAIN override |->
        IF key \in DOMAIN override THEN override[key] ELSE base[key]]

\* base and override are the key -> value functions of two dictionaries
RECURSIVE _deep_merge(_, _)
_deep_merge(base, override) ==
    [key \in DOMAIN base \cup DOMAIN override |->
        IF key \in DOMAIN override
        THEN IF key \in DOMAIN base /\ base[key].t = "dict" /\ override[key].t = "dict"
             THEN JDict(_deep_merge(base[key].m, override[key].m))
             ELSE override[key]
        ELSE base[key]]

\* the key paths of the leaves of a patch (a path is a sequence of keys)
RECURSIVE _list_changed_keys(_, _)
_list_changed_keys(patch, prefix) ==
    UNION {IF patch[k].t = "dict"
           THEN _list_changed_keys(patch[k].m, Append(prefix, k))
           ELSE {Append(prefix, k)} : k \in DOMAIN patch}

----------------------------------------------------------------------------
(* Baselines, the governor loop and the status, as functions of what they  *)
(* read.  The state file holds baselines, governor_history and             *)
(* last_governor_run (a sequence of length 0 or 1 stands for an optional). *)

EmptyState == [baselines |-> <<>>, governor_history |-> <<>>, last_governor_run |-> <<>>]

Baseline(cfg, ws, log, label, now) ==
    LET audit_result == audit(cfg, ws, log)
    IN  [label |-> label,
         timestamp |-> now,
         model |-> audit_result.current_model,
         model_cost_per_m_input |-> audit_result.model_cost_per_m_input,
         bootstrap_total_chars |-> audit_result.bootstrap_total_chars,
         bootstrap_est_tokens |-> audit_result.bootstrap_est_tokens,
         compaction_mode |-> CompactionMode(cfg),
         bootstrap_max_chars |->
             _get_nested(cfg, <<"agents", "defaults", "bootstrapMaxChars">>,
                         JInt(DEFAULT_BOOTSTRAP_MAX_CHARS)),
         bootstrap_total_max_chars |->
             _get_nested(cfg, <<"agents", "defaults", "bootstrapTotalMaxChars">>,
                         JInt(DEFAULT_BOOTSTRAP_TOTAL_MAX_CHARS)),
         findings_count |-> Len(audit_result.findings)]

\* a cap that keeps the oldest entries instead of the newest
AppendBaselineKeepOldest(state, baseline) ==
    [state EXCEPT !.baselines = SubSeq(Append(state.baselines, baseline), 1,
                                       Min2(Len(state.baselines) + 1, MaxBaselines))]

\* baselines.append(baseline); baselines = baselines[-20:]
AppendBaseline(state, baseline) ==
    [state EXCEPT !.baselines = LastN(Append(state.baselines, baseline), MaxBaselines)]

\* a comparison without the guard baseline_chars > 0
BloatDriftFromZero(baseline_chars, current_chars) ==
    5 * current_chars > 6 * baseline_chars

\* current_chars > baseline_chars * 1.2, which in double arithmetic is exactly
\* 5 * current_chars > 6 * baseline_chars for every size a file can have
BloatDrift(baseline_chars, current_chars) ==
    baseline_chars > 0 /\ 5 * current_chars > 6 * baseline_chars

\* the three checks as an if / elif chain: the first that fires hides the rest
AlertsFirstMatch(audit_result, cfg, baselines) ==
    IF audit_result.current_model \in EXPENSIVE_MODELS THEN <<"expensive">>
    ELSE IF baselines # <<>>
            /\ BloatDrift(baselines[1].bootstrap_total_chars,
                          audit_result.bootstrap_total_chars)
    THEN <<"bloat">>
    ELSE IF CompactionMode(cfg) = JStr("safeguard") THEN <<"compaction">>
    ELSE <<>>

Alerts(audit_result, cfg, baselines) ==
    (IF audit_result.current_model \in EXPENSIVE_MODELS THEN <<"expensive">> ELSE <<>>)
    \o (IF baselines # <<>>
           /\ BloatDrift(baselines[1].bootstrap_total_chars,
                         audit_result.bootstrap_total_chars)
        THEN <<"bloat">> ELSE <<>>)
    \o (IF CompactionMode(cfg) = JStr("safeguard") THEN <<"compaction">> ELSE <<>>)

GovernorStatus(alerts) == IF alerts = <<>> THEN "healthy" ELSE "needs_attention"

GovernorResult(cfg, ws, log, state, now) ==
    LET audit_result == audit(cfg, ws, log)
        alerts == Alerts(audit_result, cfg, state.baselines)
    IN  [op |-> "run_governor",
         timestamp |-> now,
         status |-> GovernorStatus(alerts),
         current_model |-> audit_result.current_model,
         bootstrap_total_chars |-> audit_result.bootstrap_total_chars,
         bootstrap_est_tokens |-> audit_result.bootstrap_est_tokens,
         compaction_mode |-> CompactionMode(cfg),
         findings_count |-> Len(audit_result.findings),
         alerts |-> alerts,
         actions_taken |-> <<>>,
         estimated_savings_pct |-> audit_result.estimated_savings_pct,
         recommendations_count |-> Len(audit_result.recommendations)]

\* a history that is capped before the new result is appended to it
AppendHistoryCapFirst(state, res) ==
    [state EXCEPT !.governor_history =
                      Append(LastN(state.governor_history, MaxHistory), res),
                  !.last_governor_run = <<res>>]

\* history.append(result); history = history[-50:]; last_governor_run = result
AppendHistory(state, res) ==
    [state EXCEPT !.governor_history =
                      LastN(Append(state.governor_history, res), MaxHistory),
                  !.last_governor_run = <<res>>]

\* a tier that takes every model it does not know for a free one
ModelTierDefaultCheap(current_model) ==
    IF current_model \in EXPENSIVE_MODELS THEN "expensive"
    ELSE IF current_model \in MID_TIER_MODELS THEN "mid"
    ELSE "cheap/local"

ModelTier(current_model) ==
    IF current_model \in EXPENSIVE_MODELS THEN "expensive"
    ELSE IF current_model \in MID_TIER_MODELS THEN "mid"
    ELSE IF current_model \in CHEAP_MODELS THEN "cheap/local"
    ELSE "unknown"

status(cfg, ws, log, state) ==
    LET current_model == _detect_current_model(cfg, log)
        bootstrap == measure_bootstrap_files(cfg, ws)
        new_cost == IF current_model \in DOMAIN MODEL_COSTS
                    THEN MODEL_COSTS[current_model] ELSE 0
    IN  [op |-> "status",
         current_model |-> current_model,
         model_cost_per_m_input |-> new_cost,
         model_tier |-> ModelTier(current_model),
         bootstrap_total_chars |-> bootstrap.total_chars,
         bootstrap_est_tokens |-> bootstrap.total_est_tokens,
         bootstrap_file_count |-> Len(bootstrap.files),
         compaction_mode |-> CompactionMode(cfg),
         governor_runs |-> Len(state.governor_history),
         baselines_recorded |-> Len(state.baselines),
         savings_vs_baseline |->
             IF state.baselines # <<>>
             THEN LET first == state.baselines[1]
                  IN  <<[baseline_date |-> first.timestamp,
                         old_cost |-> first.model_cost_per_m_input,
                         new_cost |-> new_cost,
                         old_tokens |-> first.bootstrap_est_tokens,
                         new_tokens |-> bootstrap.total_est_tokens,
                         old_model |-> first.model,
                         new_model |-> current_model]>>
             ELSE <<>>,
         last_governor_run |-> state.last_governor_run]

\* cost-govern: exit 1 when the status is needs_attention, 0 otherwise
cost_govern_exit(res) == IF res.status = "needs_attention" THEN 1 ELSE 0

----------------------------------------------------------------------------
(* Files.  A text of the live config is what a parser and a text-mode copy *)
(* can tell apart: whether it decodes as UTF-8, whether it parses, the     *)
(* document it parses to, and its line endings.                            *)

Procs == {1, 2}
Paths == {"cfg", "cfg.tmp", "cfg.bak", "state", "state.tmp"}
NInodes == 6
Inodes == 1..NInodes

ConfigText(kind, doc, nl) == [kind |-> kind, doc |-> doc, nl |-> nl]
StateText(state) == [kind |-> "state", doc |-> state]
Hole == [kind |-> "hole"]

RECURSIVE CountLeaves(_)
CountLeaves(v) ==
    IF v.t # "dict" THEN 1
    ELSE LET RECURSIVE Sum(_)
             Sum(ks) == IF ks = {} THEN 0
                        ELSE LET k == CHOOSE x \in ks : TRUE
                             IN  CountLeaves(v.m[k]) + Sum(ks \ {k})
         IN  Sum(DOMAIN v.m)

\* how many blocks the buffered writer flushes for a text
NBlocks(text) ==
    CASE text.kind = "state" ->
             1 + (Len(text.doc.baselines) + Len(text.doc.governor_history)) \div BlockEntries
      [] text.kind = "json" -> 1 + CountLeaves(text.doc) \div BlockEntries
      [] OTHER -> 1

Blocks(text) == [i \in 1..NBlocks(text) |-> [d |-> text, i |-> i, n |-> NBlocks(text)]]

\* the file holds one text, whole
Complete(content) ==
    /\ content # <<>>
    /\ \A i \in 1..Len(content) :
          /\ content[i].d.kind # "hole"
          /\ content[i].i = i
          /\ content[i].n = Len(content)
          /\ content[i].d = content[1].d

Exists(d, path) == d[path] # 0
Content(d, ino, path) == ino[d[path]]

\* a write of one block at an offset of the descriptor (no O_APPEND)
WriteAt(content, pos, blk) ==
    IF pos <= Len(content) THEN [content EXCEPT ![pos] = blk]
    ELSE content \o [i \in 1..(pos - Len(content) - 1) |-> [d |-> Hole, i |-> 0, n |-> 0]]
                 \o <<blk>>

\* inodes no path and no descriptor refers to are gone
Referenced(d, fds) == {d[q] : q \in Paths} \cup fds
Collect(d, ino, fds) ==
    [i \in Inodes |-> IF i \in Referenced(d, fds) THEN ino[i] ELSE <<>>]
FreshInode(d, fds) == CHOOSE i \in Inodes : i \notin Referenced(d, fds) /\
                          \A j \in Inodes : j \notin Referenced(d, fds) => i <= j
Descriptors(l) == {l[q].fd : q \in Procs} \ {0}

\* json.load of the live config: the document, or {} when it does not parse
ParseConfig(content) ==
    IF Complete(content) /\ content[1].d.kind = "json" THEN content[1].d.doc ELSE EmptyDict
Decodes(content) == \A i \in 1..Len(content) : content[i].d.kind # "badutf8"
\* open() of the file succeeds
Readable(content) == \A i \in 1..Len(content) : content[i].d.kind # "unreadable"

\* f.read() of a text-mode file: universal newlines turn \r\n into \n
TextRead(content) ==
    [i \in 1..Len(content) |->
        [content[i] EXCEPT !.d = IF content[i].d.kind \in {"json", "badjson"}
                                 THEN [content[i].d EXCEPT !.nl = "lf"]
                                 ELSE content[i].d]]

\* json.dump(merged, indent=2) and the final newline
DumpConfig(doc) == ConfigText("json", doc, "lf")

\* _load_state: the state, or {} when the file is missing or does not parse
_load_state(d, ino) ==
    IF Exists(d, "state") /\ Complete(Content(d, ino, "state"))
    THEN Content(d, ino, "state")[1].d.doc
    ELSE EmptyState

get_baselines(d, ino) == _load_state(d, ino).baselines

----------------------------------------------------------------------------
(* The inputs the model draws from.                                        *)

\* the configuration of the test fixture: an expensive model, weak compaction
CfgExpensive ==
    Defaults(("model" :> JDict("primary" :> JStr("claude-opus-4-6")))
          @@ ("compaction" :> JDict("mode" :> JStr("safeguard")))
          @@ ("maxConcurrent" :> JInt(4)))

\* a configuration already optimised
CfgCheap ==
    Defaults(("model" :> JDict("primary" :> JStr("ollama/llama3.3")))
          @@ ("compaction" :> JDict("mode" :> JStr("default")))
          @@ ("bootstrapTotalMaxChars" :> JInt(20000)))

\* the fixture's configuration after its owner added the gateway settings
CfgWithGateway ==
    JDict(CfgExpensive.m @@ ("gateway" :> JDict("port" :> JInt(18789))))

CompactionPatch == Defaults("compaction" :> JDict("mode" :> JStr("default")))

Strategies == {"aggressive", "balanced", "conservative"}
Labels == {"manual"}
EditableFiles == {"AGENTS.md"}
Sizes == {6, 7}

NoLog == [exists |-> FALSE, readable |-> FALSE, lines |-> <<>>]
NoWorkspace == [f \in {BOOTSTRAP_FILES[i] : i \in 1..Len(BOOTSTRAP_FILES)} |-> -1]

InitTexts == {ConfigText("json", CfgExpensive, "lf"), ConfigText("json", CfgCheap, "crlf")}
ExtTexts == {ConfigText("json", CfgWithGateway, "lf"),
             ConfigText("badutf8", EmptyDict, "lf")}

NoLoc ==
    [op |-> "", fd |-> 0, pos |-> 0, data |-> <<>>, patch |-> EmptyDict,
     backup |-> FALSE, merged |-> EmptyDict, newstate |-> EmptyState,
     ret |-> [op |-> ""]]
NoResult == [op |-> ""]
NoApply ==
    [n |-> 0, patch |-> EmptyDict, backup |-> FALSE, outcome |-> "",
     failed_at |-> "", pre |-> <<>>, post |-> <<>>, bak |-> <<>>,
     mem_before |-> EmptyDict, mem_after |-> EmptyDict]
NoSave == [n |-> 0, outcome |-> "", pre |-> <<>>, post |-> <<>>]

MissingText == ConfigText("missing", EmptyDict, "lf")

\* no GatewayWatchdog and no AntiIdlingSystem has been constructed
NoWatchdog == [pc |-> "none"]
NoAntiIdle == [pc |-> "none"]

\* the two periodic loops, AntiIdlingSystem.run_periodic_check and
\* SelfOptimizationOrchestrator.run_daemon; running is the flag _running or
\* _daemon_running, False after __init__.  History: stopped_before, a stop
\* was requested before the loop was entered; stopped_at, where the loop was
\* at the first stop requested after it was entered; how often the loop test
\* passed and the body ran after that stop.
LoopNames == {"run_periodic_check", "run_daemon"}
NoLoop ==
    [running |-> FALSE, pc |-> "not_called", iterations |-> 0,
     stopped_before |-> FALSE, stopped_at |-> "none",
     tests_passed_after_stop |-> 0, bodies_after_stop |-> 0, last_cycle |-> "none"]
NoLoops == [l \in LoopNames |-> NoLoop]

\* the cost governor's side of the initial state
InitGovernor(texts, budget0) ==
    /\ \E text \in texts :
          IF text.kind = "missing"
          THEN /\ dir = [q \in Paths |-> 0]
               /\ inodes = [i \in Inodes |-> <<>>]
          ELSE /\ dir = [q \in Paths |-> IF q = "cfg" THEN 1 ELSE 0]
               /\ inodes = [i \in Inodes |-> IF i = 1 THEN Blocks(text) ELSE <<>>]
    /\ workspace = [NoWorkspace EXCEPT !["AGENTS.md"] = 5]
    /\ gatewayLog = NoLog
    /\ pc = [p \in Procs |-> "new"]
    /\ config = [p \in Procs |-> EmptyDict]
    /\ loc = [p \in Procs |-> NoLoc]
    /\ result = [p \in Procs |-> NoResult]
    /\ exitCode = [p \in Procs |-> 0]
    /\ clock = 1
    /\ budget = budget0
    /\ recorded = <<>>
    /\ governed = <<>>
    /\ applied = NoApply
    /\ saved = NoSave

InitWith(texts, budget0) ==
    /\ InitGovernor(texts, budget0)
    /\ watchdog = NoWatchdog
    /\ antiIdle = NoAntiIdle
    /\ loops = NoLoops

Init == InitWith(InitTexts \cup {MissingText}, MaxEvents)

----------------------------------------------------------------------------
(* The steps every writer is made of.                                      *)

\* writers that open the target itself instead of a temp file beside it
ConfigInPlace == "cfg"
StateInPlace == "state"

ConfigTmpPath == "cfg.tmp"
StateTmpPath == "state.tmp"
BackupPath == "cfg.bak"

\* open(path, "w"): the file is created, or truncated in place
OpenForWrite(p, path, data, nextpc, more) ==
    LET ino == IF Exists(dir, path) THEN dir[path]
               ELSE FreshInode(dir, Descriptors(loc))
    IN  /\ dir' = [dir EXCEPT ![path] = ino]
        /\ inodes' = [inodes EXCEPT ![ino] = <<>>]
        /\ loc' = [loc EXCEPT ![p] = [more EXCEPT !.fd = ino, !.pos = 1, !.data = data]]
        /\ pc' = [pc EXCEPT ![p] = nextpc]

\* one flush of the buffered writer; the last one closes the file
WriteBlock(p, nextpc) ==
    LET l == loc[p]
        written == [inodes EXCEPT ![l.fd] = WriteAt(@, l.pos, l.data[l.pos])]
    IN  /\ l.pos <= Len(l.data)
        /\ IF l.pos < Len(l.data)
           THEN /\ inodes' = written
                /\ loc' = [loc EXCEPT ![p].pos = l.pos + 1]
                /\ pc' = pc
           ELSE /\ loc' = [loc EXCEPT ![p].fd = 0, ![p].pos = 0, ![p].data = <<>>]
                /\ inodes' = Collect(dir, written, Descriptors(loc'))
                /\ pc' = [pc EXCEPT ![p] = nextpc]
        /\ UNCHANGED dir

\* os.replace(tmp, target), when tmp exists
Rename(tmp, target) ==
    /\ dir' = IF tmp = target THEN dir
              ELSE [dir EXCEPT ![target] = dir[tmp], ![tmp] = 0]
    /\ inodes' = Collect(dir', inodes, Descriptors(loc))

\* leaving a with-block on an exception closes the file
CloseOnError(p) ==
    /\ loc' = [loc EXCEPT ![p] = NoLoc]
    /\ inodes' = Collect(dir, inodes, Descriptors(loc'))
    /\ UNCHANGED dir

----------------------------------------------------------------------------
(* CostGovernor(...): the constructor reads the live config once.          *)

Construct(p) ==
    /\ pc[p] = "new"
    /\ IF ~Exists(dir, "cfg") \/ ~Readable(Content(dir, inodes, "cfg"))
       THEN /\ config' = [config EXCEPT ![p] = EmptyDict]
            /\ pc' = [pc EXCEPT ![p] = "idle"]
            /\ UNCHANGED exitCode
       ELSE IF ~Decodes(Content(dir, inodes, "cfg"))
       THEN \* UnicodeDecodeError is neither OSError nor JSONDecodeError
            /\ pc' = [pc EXCEPT ![p] = "crashed"]
            /\ exitCode' = [exitCode EXCEPT ![p] = 1]
            /\ UNCHANGED config
       ELSE /\ config' = [config EXCEPT ![p] = ParseConfig(Content(dir, inodes, "cfg"))]
            /\ pc' = [pc EXCEPT ![p] = "idle"]
            /\ UNCHANGED exitCode
    /\ UNCHANGED <<dir, inodes, workspace, gatewayLog, watchdog, antiIdle, loops, loc, result, clock, budget,
                   recorded, governed, applied, saved>>

\* the process ends; the next command constructs a new governor
Exit(p) ==
    /\ pc[p] = "idle"
    /\ budget > 0
    /\ result[p].op # ""
    /\ pc' = [pc EXCEPT ![p] = "new"]
    /\ config' = [config EXCEPT ![p] = EmptyDict]
    /\ result' = [result EXCEPT ![p] = NoResult]
    /\ UNCHANGED <<dir, inodes, workspace, gatewayLog, watchdog, antiIdle, loops, loc, exitCode, clock, budget,
                   recorded, governed, applied, saved>>

----------------------------------------------------------------------------
(* The calls that only read.                                               *)

Audit(p) ==
    /\ pc[p] = "idle"
    /\ result' = [result EXCEPT ![p] =
                     [op |-> "audit"] @@ audit(config[p], workspace, gatewayLog)]
    /\ UNCHANGED <<dir, inodes, workspace, gatewayLog, watchdog, antiIdle, loops, pc, config, loc, exitCode, clock,
                   budget, recorded, governed, applied, saved>>

\* a generator that applies its proposal to the in-memory config
GenerateAndApply(p, strategy) ==
    LET proposal == generate_optimized_config(config[p], workspace, gatewayLog, strategy)
    IN  /\ pc[p] = "idle"
        /\ result' = [result EXCEPT ![p] = proposal]
        /\ config' = [config EXCEPT ![p] = JDict(_deep_merge(config[p].m, proposal.patch.m))]
        /\ UNCHANGED <<dir, inodes, workspace, gatewayLog, watchdog, antiIdle, loops, pc, loc, exitCode, clock,
                       budget, recorded, governed, applied, saved>>

GenerateOptimizedConfig(p, strategy) ==
    /\ pc[p] = "idle"
    /\ result' = [result EXCEPT ![p] =
                     generate_optimized_config(config[p], workspace, gatewayLog, strategy)]
    /\ UNCHANGED <<dir, inodes, workspace, gatewayLog, watchdog, antiIdle, loops, pc, config, loc, exitCode, clock,
                   budget, recorded, governed, applied, saved>>

\* _estimate_total_savings(recommendations), a function of the module,
\* applied to the list that waits in result[p]
EstimateTotalSavings(p) ==
    /\ result[p].op = "recommendations"
    /\ result' = [result EXCEPT ![p] =
                     [op |-> "_estimate_total_savings",
                      recommendations |-> result[p].recommendations,
                      value |-> _estimate_total_savings(result[p].recommendations)]]
    /\ UNCHANGED <<dir, inodes, workspace, gatewayLog, watchdog, antiIdle, loops, pc, config, loc, exitCode, clock,
                   budget, recorded, governed, applied, saved>>

\* _deep_merge(base, override), a function of the module, applied to the two
\* dictionaries that wait in result[p]: result = dict(base) is a copy, and
\* every assignment of the loop goes to the copy
DeepMerge(p) ==
    /\ result[p].op = "dictionaries"
    /\ result' = [result EXCEPT ![p] =
                     [op |-> "_deep_merge",
                      base_before |-> result[p].base,
                      override_before |-> result[p].override,
                      base |-> result[p].base,
                      override |-> result[p].override,
                      value |-> _deep_merge(result[p].base, result[p].override)]]
    /\ UNCHANGED <<dir, inodes, workspace, gatewayLog, watchdog, antiIdle, loops, pc, config, loc,
                   exitCode, clock, budget, recorded, governed, applied, saved>>

GetBaselines(p) ==
    /\ pc[p] = "idle"
    /\ result' = [result EXCEPT ![p] =
                     [op |-> "get_baselines", baselines |-> get_baselines(dir, inodes)]]
    /\ UNCHANGED <<dir, inodes, workspace, gatewayLog, watchdog, antiIdle, loops, pc, config, loc, exitCode, clock,
                   budget, recorded, governed, applied, saved>>

Status(p) ==
    /\ pc[p] = "idle"
    /\ result' = [result EXCEPT ![p] =
                     status(config[p], workspace, gatewayLog, _load_state(dir, inodes))]
    /\ UNCHANGED <<dir, inodes, workspace, gatewayLog, watchdog, antiIdle, loops, pc, config, loc, exitCode, clock,
                   budget, recorded, governed, applied, saved>>

----------------------------------------------------------------------------
(* apply_config(patch, backup).                                            *)

ApplyResult(outcome, error, backup, patch) ==
    [op |-> "apply_config", outcome |-> outcome, error |-> error,
     backup_path |-> IF outcome = "ok" /\ backup THEN BackupPath ELSE "",
     keys_changed |-> IF outcome = "ok" THEN _list_changed_keys(patch.m, <<>>) ELSE {}]

\* a merge into what the live config file holds when the call starts
MergedIntoLive(p, patch) ==
    JDict(_deep_merge((IF Exists(dir, "cfg") THEN ParseConfig(Content(dir, inodes, "cfg"))
                       ELSE EmptyDict).m, patch.m))

Merged(p, patch) == JDict(_deep_merge(config[p].m, patch.m))

\* the call starts: with backup, the live file is read and the backup opened;
\* without, the merge is written to the temp file straight away
ApplyBegin(p, patch, backup) ==
    LET live == IF Exists(dir, "cfg") THEN Content(dir, inodes, "cfg") ELSE <<>>
        call == [NoApply EXCEPT !.n = applied.n + 1, !.patch = patch,
                                !.backup = backup, !.pre = live, !.post = live,
                                !.mem_before = config[p], !.mem_after = config[p]]
        mine == [NoLoc EXCEPT !.op = "apply_config", !.patch = patch, !.backup = backup,
                              !.merged = Merged(p, patch)]
    IN  /\ pc[p] = "idle"
        /\ budget > 0
        /\ budget' = budget - 1
        /\ IF backup /\ (~Exists(dir, "cfg") \/ ~Readable(live))
           THEN \* FileNotFoundError or PermissionError, an OSError
                /\ result' = [result EXCEPT ![p] =
                                 ApplyResult("failed", "Backup failed", backup, patch)]
                /\ applied' = [call EXCEPT !.outcome = "failed", !.failed_at = "backup"]
                /\ UNCHANGED <<dir, inodes, loc, pc, exitCode>>
           ELSE IF backup /\ ~Decodes(live)
           THEN \* UnicodeDecodeError is not an OSError: it leaves the call
                /\ result' = [result EXCEPT ![p] =
                                 ApplyResult("raised", "UnicodeDecodeError", backup, patch)]
                /\ applied' = [call EXCEPT !.outcome = "raised", !.failed_at = "backup"]
                /\ pc' = [pc EXCEPT ![p] = "crashed"]
                /\ exitCode' = [exitCode EXCEPT ![p] = 1]
                /\ UNCHANGED <<dir, inodes, loc>>
           ELSE /\ IF backup
                   THEN OpenForWrite(p, BackupPath, TextRead(live), "ap_write_bak", mine)
                   ELSE OpenForWrite(p, ConfigTmpPath, Blocks(DumpConfig(mine.merged)),
                                     "ap_write_tmp", mine)
                /\ applied' = call
                /\ UNCHANGED <<result, exitCode>>
    /\ UNCHANGED <<workspace, gatewayLog, watchdog, antiIdle, loops, config, clock, recorded, governed, saved>>

ApplyBackupWrite(p) ==
    /\ pc[p] = "ap_write_bak"
    /\ WriteBlock(p, "ap_open_tmp")
    /\ UNCHANGED <<workspace, gatewayLog, watchdog, antiIdle, loops, config, result, exitCode, clock, budget,
                   recorded, governed, applied, saved>>

ApplyTmpOpen(p) ==
    /\ pc[p] = "ap_open_tmp"
    /\ OpenForWrite(p, ConfigTmpPath, Blocks(DumpConfig(loc[p].merged)), "ap_write_tmp",
                    loc[p])
    /\ UNCHANGED <<workspace, gatewayLog, watchdog, antiIdle, loops, config, result, exitCode, clock, budget,
                   recorded, governed, applied, saved>>

ApplyTmpWrite(p) ==
    /\ pc[p] = "ap_write_tmp"
    /\ WriteBlock(p, "ap_replace")
    /\ UNCHANGED <<workspace, gatewayLog, watchdog, antiIdle, loops, config, result, exitCode, clock, budget,
                   recorded, governed, applied, saved>>

ApplyFailed(p, phase, error) ==
    /\ result' = [result EXCEPT ![p] =
                     ApplyResult("failed", error, loc[p].backup, loc[p].patch)]
    /\ applied' = [applied EXCEPT
                      !.outcome = "failed", !.failed_at = phase,
                      !.post = IF Exists(dir, "cfg") THEN Content(dir, inodes, "cfg")
                               ELSE <<>>,
                      !.mem_after = config[p]]
    /\ pc' = [pc EXCEPT ![p] = "idle"]
    /\ CloseOnError(p)
    /\ UNCHANGED config

ApplyReplace(p) ==
    /\ pc[p] = "ap_replace"
    /\ IF Exists(dir, ConfigTmpPath)
       THEN /\ Rename(ConfigTmpPath, "cfg")
            /\ config' = [config EXCEPT ![p] = loc[p].merged]
            /\ result' = [result EXCEPT ![p] =
                             ApplyResult("ok", "", loc[p].backup, loc[p].patch)]
            /\ applied' = [applied EXCEPT
                              !.outcome = "ok",
                              !.mem_after = loc[p].merged,
                              !.post = Content(dir', inodes', "cfg"),
                              !.bak = IF Exists(dir', BackupPath)
                                      THEN Content(dir', inodes', BackupPath) ELSE <<>>]
            /\ pc' = [pc EXCEPT ![p] = "idle"]
            /\ loc' = [loc EXCEPT ![p] = NoLoc]
       ELSE ApplyFailed(p, "write", "Write failed")
    /\ UNCHANGED <<workspace, gatewayLog, watchdog, antiIdle, loops, exitCode, clock, budget, recorded, governed,
                   saved>>

\* an OSError while the backup is written
ApplyBackupFail(p) ==
    /\ pc[p] = "ap_write_bak"
    /\ budget > 0
    /\ budget' = budget - 1
    /\ ApplyFailed(p, "backup", "Backup failed")
    /\ UNCHANGED <<workspace, gatewayLog, watchdog, antiIdle, loops, exitCode, clock, recorded, governed, saved>>

\* an OSError while the temp file is opened, written or renamed
ApplyWriteFail(p) ==
    /\ pc[p] \in {"ap_open_tmp", "ap_write_tmp", "ap_replace"}
    /\ budget > 0
    /\ budget' = budget - 1
    /\ ApplyFailed(p, "write", "Write failed")
    /\ UNCHANGED <<workspace, gatewayLog, watchdog, antiIdle, loops, exitCode, clock, recorded, governed, saved>>

----------------------------------------------------------------------------
(* record_baseline, run_governor and _save_state.                          *)

StateFile == IF Exists(dir, "state") THEN Content(dir, inodes, "state") ELSE <<>>

RecordBaseline(p, label) ==
    LET baseline == Baseline(config[p], workspace, gatewayLog, label, clock)
        state == _load_state(dir, inodes)
    IN  /\ pc[p] = "idle"
        /\ budget > 0
        /\ budget' = budget - 1
        /\ clock' = clock + 1
        /\ loc' = [loc EXCEPT ![p] =
                      [NoLoc EXCEPT !.op = "record_baseline",
                                    !.ret = [op |-> "record_baseline", baseline |-> baseline],
                                    !.newstate = AppendBaseline(state, baseline)]]
        /\ pc' = [pc EXCEPT ![p] = "ss_open"]
        /\ saved' = [NoSave EXCEPT !.n = saved.n + 1, !.pre = StateFile, !.post = StateFile]
        /\ UNCHANGED <<dir, inodes, workspace, gatewayLog, watchdog, antiIdle, loops, config, result, exitCode,
                       recorded, governed, applied>>

RunGovernor(p) ==
    LET state == _load_state(dir, inodes)
        res == GovernorResult(config[p], workspace, gatewayLog, state, clock)
    IN  /\ pc[p] = "idle"
        /\ budget > 0
        /\ budget' = budget - 1
        /\ clock' = clock + 1
        /\ loc' = [loc EXCEPT ![p] =
                      [NoLoc EXCEPT !.op = "run_governor", !.ret = res,
                                    !.newstate = AppendHistory(state, res)]]
        /\ pc' = [pc EXCEPT ![p] = "ss_open"]
        /\ saved' = [NoSave EXCEPT !.n = saved.n + 1, !.pre = StateFile, !.post = StateFile]
        /\ UNCHANGED <<dir, inodes, workspace, gatewayLog, watchdog, antiIdle, loops, config, result, exitCode,
                       recorded, governed, applied>>

SaveOpen(p) ==
    /\ pc[p] = "ss_open"
    /\ OpenForWrite(p, StateTmpPath, Blocks(StateText(loc[p].newstate)), "ss_write", loc[p])
    /\ UNCHANGED <<workspace, gatewayLog, watchdog, antiIdle, loops, config, result, exitCode, clock, budget,
                   recorded, governed, applied, saved>>

SaveWrite(p) ==
    /\ pc[p] = "ss_write"
    /\ WriteBlock(p, "ss_replace")
    /\ UNCHANGED <<workspace, gatewayLog, watchdog, antiIdle, loops, config, result, exitCode, clock, budget,
                   recorded, governed, applied, saved>>

\* _save_state is over, whether it saved or logged a warning: the call returns
Return(p, outcome) ==
    /\ result' = [result EXCEPT ![p] = loc[p].ret]
    /\ saved' = [saved EXCEPT !.outcome = outcome,
                              !.post = IF Exists(dir', "state")
                                       THEN Content(dir', inodes', "state") ELSE <<>>]
    /\ recorded' = IF loc[p].op = "record_baseline"
                   THEN Append(recorded, loc[p].ret.baseline) ELSE recorded
    /\ governed' = IF loc[p].op = "run_governor"
                   THEN Append(governed, loc[p].ret) ELSE governed
    /\ exitCode' = IF loc[p].op = "run_governor"
                   THEN [exitCode EXCEPT ![p] = cost_govern_exit(loc[p].ret)]
                   ELSE exitCode
    /\ pc' = [pc EXCEPT ![p] = "idle"]

SaveReplace(p) ==
    /\ pc[p] = "ss_replace"
    /\ IF Exists(dir, StateTmpPath)
       THEN Rename(StateTmpPath, "state") /\ Return(p, "ok")
       ELSE UNCHANGED <<dir, inodes>> /\ Return(p, "failed")
    /\ loc' = [loc EXCEPT ![p] = NoLoc]
    /\ UNCHANGED <<workspace, gatewayLog, watchdog, antiIdle, loops, config, clock, budget, applied>>

\* an OSError while the state is saved: a warning is logged
SaveFail(p) ==
    /\ pc[p] \in {"ss_open", "ss_write", "ss_replace"}
    /\ budget > 0
    /\ budget' = budget - 1
    /\ CloseOnError(p)
    /\ Return(p, "failed")
    /\ UNCHANGED <<workspace, gatewayLog, watchdog, antiIdle, loops, config, clock, applied>>

----------------------------------------------------------------------------
(* The surroundings: the bootstrap files are edited, and the platform that *)
(* owns the live config rewrites it.                                       *)

\* no call is in progress: the surroundings act between calls, which loses
\* nothing, since a call reads the bootstrap files and the live config in
\* its first step only
Quiescent == \A p \in Procs : pc[p] \in {"new", "idle", "crashed"}

EditWorkspace(f, n) ==
    /\ Quiescent
    /\ budget > 0
    /\ workspace[f] # n
    /\ budget' = budget - 1
    /\ workspace' = [workspace EXCEPT ![f] = n]
    /\ UNCHANGED <<dir, inodes, gatewayLog, watchdog, antiIdle, loops, pc, config, loc, result, exitCode, clock,
                   recorded, governed, applied, saved>>

ExtWriteConfig(text) ==
    LET ino == IF Exists(dir, "cfg") THEN dir["cfg"]
               ELSE FreshInode(dir, Descriptors(loc))
    IN  /\ Quiescent
        /\ budget > 0
        /\ budget' = budget - 1
        /\ dir' = [dir EXCEPT !["cfg"] = ino]
        /\ inodes' = [inodes EXCEPT ![ino] = Blocks(text)]
        /\ UNCHANGED <<workspace, gatewayLog, watchdog, antiIdle, loops, pc, config, loc, result, exitCode, clock,
                       recorded, governed, applied, saved>>

----------------------------------------------------------------------------
(* Specifications.                                                         *)

Patches == {AggressivePatch, CompactionPatch}

Step(p) ==
    \/ Construct(p)
    \/ Exit(p)
    \/ \E patch \in Patches, backup \in BOOLEAN : ApplyBegin(p, patch, backup)
    \/ ApplyBackupWrite(p)
    \/ ApplyTmpOpen(p)
    \/ ApplyTmpWrite(p)
    \/ ApplyReplace(p)
    \/ ApplyBackupFail(p)
    \/ ApplyWriteFail(p)
    \/ \E label \in Labels : RecordBaseline(p, label)
    \/ RunGovernor(p)
    \/ SaveOpen(p)
    \/ SaveWrite(p)
    \/ SaveReplace(p)
    \/ SaveFail(p)

Next ==
    \/ Step(1)
    \/ \E f \in EditableFiles, n \in Sizes : EditWorkspace(f, n)
    \/ \E text \in ExtTexts : ExtWriteConfig(text)

Spec == Init /\ [][Next]_vars

\* two processes run the state-writing calls against one state directory
InitRace == InitWith({ConfigText("json", CfgExpensive, "lf")}, MaxEvents)

NextRace ==
    \E p \in Procs :
        \/ Construct(p)
        \/ \E label \in Labels : RecordBaseline(p, label)
        \/ RunGovernor(p)
        \/ SaveOpen(p)
        \/ SaveWrite(p)
        \/ SaveReplace(p)

SpecRace == InitRace /\ [][NextRace]_vars

\* one process records baseline after baseline
InitBaseline == InitWith(InitTexts, MaxBaselineCalls)

NextBaseline ==
    \/ Construct(1)
    \/ \E label \in Labels : RecordBaseline(1, label)
    \/ SaveOpen(1)
    \/ SaveWrite(1)
    \/ SaveReplace(1)
    \/ GetBaselines(1)

SpecBaseline == InitBaseline /\ [][NextBaseline]_vars

\* one process runs the governor again and again, over a state file that holds
\* no baseline or the one an earlier record_baseline left
SeedBaseline ==
    Baseline(CfgExpensive, [NoWorkspace EXCEPT !["AGENTS.md"] = 5], NoLog, "manual", 0)

InitHistory ==
    /\ \E seed \in {<<>>, <<SeedBaseline>>} :
          /\ dir = [q \in Paths |-> CASE q = "cfg" -> 1
                                      [] q = "state" /\ seed # <<>> -> 2
                                      [] OTHER -> 0]
          /\ inodes = [i \in Inodes |->
                          CASE i = 1 -> Blocks(ConfigText("json", CfgExpensive, "lf"))
                            [] i = 2 /\ seed # <<>> ->
                                   Blocks(StateText([EmptyState EXCEPT !.baselines = seed]))
                            [] OTHER -> <<>>]
          /\ recorded = seed
    /\ workspace \in {[NoWorkspace EXCEPT !["AGENTS.md"] = n] : n \in {5, 7}}
    /\ gatewayLog = NoLog
    /\ pc = [p \in Procs |-> "new"]
    /\ config = [p \in Procs |-> EmptyDict]
    /\ loc = [p \in Procs |-> NoLoc]
    /\ result = [p \in Procs |-> NoResult]
    /\ exitCode = [p \in Procs |-> 0]
    /\ clock = 1
    /\ budget = MaxGovernCalls
    /\ governed = <<>>
    /\ applied = NoApply
    /\ saved = NoSave
    /\ watchdog = NoWatchdog
    /\ antiIdle = NoAntiIdle
    /\ loops = NoLoops

NextHistory ==
    \/ Construct(1)
    \/ RunGovernor(1)
    \/ SaveOpen(1)
    \/ SaveWrite(1)
    \/ SaveReplace(1)
    \/ Status(1)

SpecHistory == InitHistory /\ [][NextHistory]_vars

----------------------------------------------------------------------------
(* Properties.                                                             *)

\* the scalar values of a document, each with the key path that leads to it
RECURSIVE Leaves(_, _)
Leaves(v, prefix) ==
    IF v.t # "dict" THEN {<<prefix, v>>}
    ELSE UNION {Leaves(v.m[k], Append(prefix, k)) : k \in DOMAIN v.m}

IsPrefix(a, b) == Len(a) <= Len(b) /\ SubSeq(b, 1, Len(a)) = a

\* a patch mentions a path when it sets the path, a part of it or a path under it
Mentions(patch, path) ==
    \E leaf \in Leaves(patch, <<>>) : IsPrefix(leaf[1], path) \/ IsPrefix(path, leaf[1])

\* C1: after a successful apply_config(patch), every key path of the live
\* config file as it was before the call that the patch does not mention is
\* still in the live config file, with the value it had.
C1_UnmentionedKeysKept ==
    applied.outcome = "ok" =>
        \A leaf \in Leaves(ParseConfig(applied.pre), <<>>) :
            ~Mentions(applied.patch, leaf[1]) =>
                _get_nested(ParseConfig(applied.post), leaf[1], JNull) = leaf[2]

\* C2: after a successful apply_config(patch, backup=true), the backup file
\* was whole when the live config was replaced and holds exactly the content
\* the live config file had immediately before the call.
C2_BackupIsPreApplyContent ==
    (applied.outcome = "ok" /\ applied.backup) =>
        /\ Complete(applied.bak)
        /\ applied.bak = applied.pre

\* C3: an apply_config(patch, backup=true) in which reading the live config or
\* writing the backup fails returns success=false, and leaves the live config
\* file and the in-memory config as they were.
C3_BackupFailureReturnsFalse ==
    applied.failed_at = "backup" =>
        /\ applied.outcome = "failed"
        /\ applied.post = applied.pre
        /\ applied.mem_after = applied.mem_before

\* C4: when writing the temp file or renaming it fails, apply_config returns
\* success=false with the live config file and the in-memory config as they
\* were before the call, and a failed state save leaves the state file as it
\* was before the call.
C4_FailedWriteKeepsLastGood ==
    /\ applied.failed_at = "write" =>
          /\ applied.outcome = "failed"
          /\ \A p \in Procs : result[p].op = "apply_config" =>
                                  result[p].outcome = "failed"
          /\ applied.post = applied.pre
          /\ applied.mem_after = applied.mem_before
    /\ saved.outcome = "failed" => saved.post = saved.pre

\* C4 happens: an apply_config over an existing live config failed after it
\* had opened its temp file, which is still there.
C4_Witness ==
    /\ applied.failed_at = "write"
    /\ applied.pre # <<>>
    /\ \E p \in Procs : pc[p] = "idle" /\ result[p].op = "apply_config"
    /\ Exists(dir, "cfg.tmp")

\* C5: with one writer, the live config file and the governor state file hold
\* at every moment one complete text, the previous or the new one.
C5_ReaderSeesWholeFile ==
    /\ Exists(dir, "cfg") => Complete(Content(dir, inodes, "cfg"))
    /\ Exists(dir, "state") => Complete(Content(dir, inodes, "state"))

\* C5 happens: a writer is half way through a text of several blocks while
\* the file it is about to replace exists.
C5_Witness ==
    \E p \in Procs :
        /\ loc[p].fd # 0
        /\ loc[p].pos > 1
        /\ loc[p].pos <= Len(loc[p].data)
        /\ \/ pc[p] = "ss_write" /\ Exists(dir, "state")
           \/ pc[p] = "ap_write_tmp" /\ Exists(dir, "cfg")

\* C6: once two processes that ran state-writing calls concurrently have both
\* finished, the state file is one complete state, the one a single writer
\* wrote.
C6_LastWriterWins ==
    ((\A p \in Procs : pc[p] \in {"new", "idle"}) /\ Exists(dir, "state")) =>
        Complete(Content(dir, inodes, "state"))

Count(xs, x) == Cardinality({i \in 1..Len(xs) : xs[i] = x})

C10_BloatAtTwentyPercent ==
    \A p \in Procs :
        (pc[p] = "idle" /\ result[p].op = "run_governor") =>
            LET res == result[p]
                baselines == _load_state(dir, inodes).baselines
            IN  (/\ baselines # <<>>
                 /\ baselines[1].bootstrap_total_chars > 0
                 /\ 5 * res.bootstrap_total_chars >=
                        6 * baselines[1].bootstrap_total_chars) =>
                    /\ Count(res.alerts, "bloat") > 0
                    /\ res.status = "needs_attention"

----------------------------------------------------------------------------
(* Baselines are recorded one after another; the bootstrap files may grow   *)
(* once, after the first recording, and the governor runs once.            *)

GrowAfterFirst ==
    /\ Len(recorded) = 1
    /\ EditWorkspace("AGENTS.md", 7)

GovernOnce(p) ==
    /\ governed = <<>>
    /\ RunGovernor(p)

InitFirst == InitWith({ConfigText("json", CfgExpensive, "lf")}, MaxBaselineCalls + 2)

NextFirst ==
    \/ Construct(1)
    \/ \E label \in Labels : RecordBaseline(1, label)
    \/ GovernOnce(1)
    \/ SaveOpen(1)
    \/ SaveWrite(1)
    \/ SaveReplace(1)
    \/ Status(1)
    \/ GrowAfterFirst

SpecFirst == InitFirst /\ [][NextFirst]_vars

\* C11: run_governor's bloat comparison and status()'s savings_vs_baseline
\* use the first baseline ever recorded, however many were recorded after
\* it, and savings_vs_baseline is None exactly when none was recorded.
C11_ComparesWithFirstEver ==
    \A p \in Procs :
        pc[p] = "idle" =>
            /\ result[p].op = "status" =>
                  /\ (result[p].savings_vs_baseline = <<>>) <=> (recorded = <<>>)
                  /\ recorded # <<>> =>
                        LET savings == result[p].savings_vs_baseline[1]
                        IN  /\ savings.baseline_date = recorded[1].timestamp
                            /\ savings.old_cost = recorded[1].model_cost_per_m_input
                            /\ savings.old_tokens = recorded[1].bootstrap_est_tokens
                            /\ savings.old_model = recorded[1].model
            /\ result[p].op = "run_governor" =>
                  ((Count(result[p].alerts, "bloat") = 1) <=>
                       /\ recorded # <<>>
                       /\ BloatDrift(recorded[1].bootstrap_total_chars,
                                     result[p].bootstrap_total_chars))

----------------------------------------------------------------------------
(* Every call of the governor, reading and writing, by one process; nobody *)
(* else writes the live config.                                            *)

StrategyInputs == Strategies \cup {"custom"}

NextFrame ==
    \/ Construct(1)
    \/ Audit(1)
    \/ \E strategy \in StrategyInputs : GenerateOptimizedConfig(1, strategy)
    \/ Status(1)
    \/ \E patch \in Patches, backup \in BOOLEAN : ApplyBegin(1, patch, backup)
    \/ ApplyBackupWrite(1)
    \/ ApplyTmpOpen(1)
    \/ ApplyTmpWrite(1)
    \/ ApplyReplace(1)
    \/ \E label \in Labels : RecordBaseline(1, label)
    \/ RunGovernor(1)
    \/ SaveOpen(1)
    \/ SaveWrite(1)
    \/ SaveReplace(1)
    \/ \E f \in EditableFiles, n \in Sizes : EditWorkspace(f, n)

SpecFrame == Init /\ [][NextFrame]_vars

ConfigFile == IF Exists(dir, "cfg") THEN Content(dir, inodes, "cfg") ELSE <<>>

\* C12: the live config file and the in-memory config change only in
\* apply_config: audit, generate_optimized_config (whatever the strategy),
\* record_baseline, run_governor and status leave both as they are,
\* generate_optimized_config leaves the state file as it is too, and
\* actions_taken is empty in every run_governor result and history entry.
C12_OnlyApplyChangesConfig ==
    [][/\ (\/ ConfigFile' # ConfigFile
           \/ \E p \in Procs : pc[p] # "new" /\ config'[p] # config[p])
          => \E p \in Procs : loc[p].op = "apply_config" /\ pc[p] = "ap_replace"
       /\ \A p \in Procs :
             (result'[p] # result[p] /\ result'[p].op = "generate_optimized_config")
                 => StateFile' = StateFile
       /\ \A p \in Procs :
             result'[p].op = "run_governor" => result'[p].actions_taken = <<>>
       /\ LET history == _load_state(dir', inodes').governor_history
          IN  \A i \in 1..Len(history) : history[i].actions_taken = <<>>]_vars

\* C12 happens: the generator has answered for a strategy it does not know,
\* after a governor run was stored and an apply_config changed the live config.
C12_Witness ==
    \E p \in Procs :
        /\ pc[p] = "idle"
        /\ result[p].op = "generate_optimized_config"
        /\ result[p].strategy = "custom"
        /\ applied.outcome = "ok"
        /\ _load_state(dir, inodes).governor_history # <<>>

----------------------------------------------------------------------------
(* The savings estimate, over the audits of one process and over lists of  *)
(* recommendations given to the function itself.                           *)

SavingsPcts == {0, 15, 20, 30, 50, 80, 90, 100}

RecommendationLists ==
    UNION {[1..n -> {Recommendation("any", "medium", pct, <<>>) : pct \in SavingsPcts}]
               : n \in 0..MaxRecs}

InitSavings ==
    /\ \E text \in InitTexts :
          /\ dir = [q \in Paths |-> IF q = "cfg" THEN 1 ELSE 0]
          /\ inodes = [i \in Inodes |-> IF i = 1 THEN Blocks(text) ELSE <<>>]
    /\ workspace = [NoWorkspace EXCEPT !["AGENTS.md"] = 5]
    /\ gatewayLog = NoLog
    /\ pc = [p \in Procs |-> "new"]
    /\ config = [p \in Procs |-> EmptyDict]
    /\ loc = [p \in Procs |-> NoLoc]
    /\ \E recommendations \in RecommendationLists :
          result = [p \in Procs |->
                       IF p = 1 THEN [op |-> "recommendations",
                                      recommendations |-> recommendations]
                       ELSE NoResult]
    /\ exitCode = [p \in Procs |-> 0]
    /\ clock = 1
    /\ budget = MaxEvents
    /\ recorded = <<>>
    /\ governed = <<>>
    /\ applied = NoApply
    /\ saved = NoSave
    /\ watchdog = NoWatchdog
    /\ antiIdle = NoAntiIdle
    /\ loops = NoLoops

NextSavings ==
    \/ Construct(1)
    \/ Audit(1)
    \/ EstimateTotalSavings(1)

SpecSavings == InitSavings /\ [][NextSavings]_vars

RECURSIVE RemainingProduct(_)
RemainingProduct(recommendations) ==
    IF recommendations = <<>> THEN 1
    ELSE (100 - Head(recommendations).savings_pct) * RemainingProduct(Tail(recommendations))

RECURSIVE Pow100(_)
Pow100(n) == IF n = 0 THEN 1 ELSE 100 * Pow100(n - 1)

\* min(95, floor(100 (1 - prod (1 - pct_i / 100)))), in whole numbers
CompoundedSavings(recommendations) ==
    LET n == Len(recommendations)
    IN  IF n = 0 THEN 0
        ELSE Min2(95, (Pow100(n) - RemainingProduct(recommendations)) \div Pow100(n - 1))

\* C13: _estimate_total_savings returns 0 for the empty list and otherwise
\* min(95, floor(100 (1 - prod (1 - pct_i / 100)))) for percentages that are
\* integers in 0..100, a value in 0..95; every audit's estimated_savings_pct
\* is in 0..95.
C13_SavingsCompound ==
    \A p \in Procs :
        /\ result[p].op = "_estimate_total_savings" =>
              /\ result[p].value = CompoundedSavings(result[p].recommendations)
              /\ result[p].value \in 0..95
        /\ result[p].op = "audit" => result[p].estimated_savings_pct \in 0..95

----------------------------------------------------------------------------
(* One process audits, reports and governs over every kind of config file  *)
(* and gateway log.                                                        *)

ModelConfig(primary) == Defaults("model" :> JDict("primary" :> JStr(primary)))

\* a config that sets everything but the primary model
CfgNoModel ==
    Defaults(("compaction" :> JDict("mode" :> JStr("default")))
          @@ ("bootstrapTotalMaxChars" :> JInt(20000))
          @@ ("heartbeat" :> JDict("model" :> JStr("claude-haiku-4-5"))))

AuditTexts ==
    {ConfigText("json", CfgExpensive, "lf"),
     ConfigText("json", CfgCheap, "lf"),
     ConfigText("json", ModelConfig("claude-haiku-4-5"), "lf"),
     ConfigText("json", ModelConfig("my-local-model"), "lf"),
     ConfigText("json", CfgNoModel, "lf"),
     ConfigText("badjson", EmptyDict, "lf"),
     ConfigText("badutf8", EmptyDict, "lf"),
     ConfigText("unreadable", EmptyDict, "lf"),
     MissingText}

Log(lines) == [exists |-> TRUE, readable |-> TRUE, lines |-> lines]

GatewayLogs ==
    {NoLog,
     [exists |-> TRUE, readable |-> FALSE, lines |-> <<"claude-opus-4-6">>],
     Log(<<"", "">>),
     Log(<<"claude-haiku-4-5", "", "anthropic/claude-opus-4-6", "">>),
     Log(<<"claude-opus-4-6", "gpt-4o-mini">>)}

InitAudit ==
    /\ \E text \in AuditTexts :
          IF text.kind = "missing"
          THEN /\ dir = [q \in Paths |-> 0]
               /\ inodes = [i \in Inodes |-> <<>>]
          ELSE /\ dir = [q \in Paths |-> IF q = "cfg" THEN 1 ELSE 0]
               /\ inodes = [i \in Inodes |-> IF i = 1 THEN Blocks(text) ELSE <<>>]
    /\ workspace = [NoWorkspace EXCEPT !["AGENTS.md"] = 5]
    /\ gatewayLog \in GatewayLogs
    /\ pc = [p \in Procs |-> "new"]
    /\ config = [p \in Procs |-> EmptyDict]
    /\ loc = [p \in Procs |-> NoLoc]
    /\ result = [p \in Procs |-> NoResult]
    /\ exitCode = [p \in Procs |-> 0]
    /\ clock = 1
    /\ budget = MaxEvents
    /\ recorded = <<>>
    /\ governed = <<>>
    /\ applied = NoApply
    /\ saved = NoSave
    /\ watchdog = NoWatchdog
    /\ antiIdle = NoAntiIdle
    /\ loops = NoLoops

NextAudit ==
    \/ Construct(1)
    \/ Audit(1)
    \/ Status(1)
    \/ \E label \in Labels : RecordBaseline(1, label)
    \/ RunGovernor(1)
    \/ SaveOpen(1)
    \/ SaveWrite(1)
    \/ SaveReplace(1)

SpecAudit == InitAudit /\ [][NextAudit]_vars

HasFinding(res, id, severity) ==
    \E i \in 1..Len(res.findings) :
        res.findings[i].id = id /\ res.findings[i].severity = severity

HasFindingId(res, id) == \E i \in 1..Len(res.findings) : res.findings[i].id = id

HasRecommendation(res, id) ==
    \E i \in 1..Len(res.recommendations) : res.recommendations[i].id = id

\* C14: an audit holds the critical finding expensive_model and the
\* recommendation switch_default_model (80 percent, so a positive estimate)
\* exactly when the detected model is in the expensive tier; a mid-tier model
\* gives the info finding mid_tier_model and no model recommendation; a cheap
\* or unknown model gives neither finding.
C14_ModelFindingFollowsTier ==
    \A p \in Procs :
        result[p].op = "audit" =>
            LET res == result[p]
                expensive == res.current_model \in EXPENSIVE_MODELS
                mid == res.current_model \in MID_TIER_MODELS
            IN  /\ expensive <=> HasFinding(res, "expensive_model", "critical")
                /\ expensive <=> HasFindingId(res, "expensive_model")
                /\ expensive <=> HasRecommendation(res, "switch_default_model")
                /\ \A i \in 1..Len(res.recommendations) :
                      res.recommendations[i].id = "switch_default_model" =>
                          res.recommendations[i].savings_pct = 80
                /\ expensive => res.estimated_savings_pct > 0
                /\ mid <=> HasFinding(res, "mid_tier_model", "info")
                /\ mid <=> HasFindingId(res, "mid_tier_model")

\* C14 happens: an audit found the expensive model that only the gateway log
\* names.
C14_Witness ==
    \E p \in Procs :
        /\ pc[p] = "idle"
        /\ result[p].op = "audit"
        /\ result[p].current_model \in EXPENSIVE_MODELS
        /\ _get_nested(config[p], <<"agents", "defaults", "model", "primary">>, JNull) = JNull
        /\ HasFinding(result[p], "expensive_model", "critical")

\* the model the two sources name: the configured primary, else the newest
\* model line of the log, else "unknown"
NamedModel(cfg, log) ==
    LET primary == _get_nested(cfg, <<"agents", "defaults", "model", "primary">>, JNull)
        marked == {i \in 1..Len(log.lines) : log.lines[i] # ""}
    IN  IF primary # JNull /\ primary # JStr("") THEN primary.s
        ELSE IF log.exists /\ log.readable /\ marked # {}
        THEN log.lines[CHOOSE i \in marked : \A j \in marked : j <= i]
        ELSE "unknown"

\* C15: the detected model is the configured primary when there is one, else
\* the model of the newest "agent model:" line of the gateway log, and
\* "unknown" whenever neither names one, a log without such a line included.
C15_DetectedModelOrUnknown ==
    \A p \in Procs :
        (pc[p] = "idle" /\ result[p].op \in {"audit", "status"}) =>
            result[p].current_model = NamedModel(config[p], gatewayLog)

\* C16: the three tiers partition the cost table by input price (expensive
\* from 10.0, mid from 0.1, cheap below), and status() reports tier "unknown"
\* and cost 0 for a model that is not in the table.
C16_TiersPartitionTable ==
    /\ \A m \in DOMAIN MODEL_COSTS :
          /\ m \in EXPENSIVE_MODELS <=> MODEL_COSTS[m] >= 1000
          /\ m \in MID_TIER_MODELS <=> (10 <= MODEL_COSTS[m] /\ MODEL_COSTS[m] < 1000)
          /\ m \in CHEAP_MODELS <=> MODEL_COSTS[m] < 10
          /\ Cardinality({tier \in {EXPENSIVE_MODELS, MID_TIER_MODELS, CHEAP_MODELS} :
                             m \in tier}) = 1
    /\ EXPENSIVE_MODELS \cap MID_TIER_MODELS = {}
    /\ EXPENSIVE_MODELS \cap CHEAP_MODELS = {}
    /\ MID_TIER_MODELS \cap CHEAP_MODELS = {}
    /\ \A p \in Procs :
          result[p].op = "status" =>
              /\ result[p].current_model \notin DOMAIN MODEL_COSTS =>
                    /\ result[p].model_tier = "unknown"
                    /\ result[p].model_cost_per_m_input = 0
              /\ result[p].model_tier = "expensive" <=>
                    result[p].current_model \in EXPENSIVE_MODELS
              /\ result[p].model_tier = "mid" <=>
                    result[p].current_model \in MID_TIER_MODELS
              /\ result[p].model_tier = "cheap/local" <=>
                    result[p].current_model \in CHEAP_MODELS

\* C16 happens: status() has reported on a configured model the table does
\* not list.
C16_Witness ==
    \E p \in Procs :
        /\ pc[p] = "idle"
        /\ result[p].op = "status"
        /\ result[p].current_model = "my-local-model"

ConfigFileKind == IF Exists(dir, "cfg") THEN Content(dir, inodes, "cfg")[1].d.kind
                  ELSE "missing"

\* C17: constructing over a missing, unreadable or malformed config never
\* raises; the config is empty, and audit, record_baseline, run_governor and
\* status answer with the defaults: compaction safeguard, caps 20000 and
\* 150000, concurrency 1 and 1, no heartbeat model.
C17_BadConfigIsEmptyConfig ==
    \A p \in Procs :
        /\ pc[p] # "crashed"
        /\ (pc[p] # "new" /\ ConfigFileKind # "json") =>
              /\ config[p] = EmptyDict
              /\ result[p].op \in {"status", "run_governor"} =>
                    result[p].compaction_mode = JStr("safeguard")
              /\ result[p].op = "record_baseline" =>
                    /\ result[p].baseline.compaction_mode = JStr("safeguard")
                    /\ result[p].baseline.bootstrap_max_chars = JInt(20000)
                    /\ result[p].baseline.bootstrap_total_max_chars = JInt(150000)
              /\ result[p].op = "audit" =>
                    /\ HasFindingId(result[p], "weak_compaction")
                    /\ HasFindingId(result[p], "high_bootstrap_cap")
                    /\ ~HasFindingId(result[p], "high_concurrency")
                    /\ ~HasFindingId(result[p], "expensive_heartbeat")

----------------------------------------------------------------------------
(* The gateway watchdog.  run_check probes every service, tries to restart *)
(* the ones that are down, probes again after a restart that reported      *)
(* success, and returns and stores a summary.  The outcome of a probe and  *)
(* of a launchctl call is the environment's choice.                        *)

Service(name, launchd_label, critical) ==
    [name |-> name, launchd_label |-> launchd_label, critical |-> critical]

\* KNOWN_SERVICES, and a service a caller passes in: restartable, not critical
Gateway == Service("gateway", "ai.openclaw.gateway", TRUE)
Enterprise == Service("enterprise", "", TRUE)
ViteUi == Service("vite-ui", "", FALSE)
Worker == Service("worker", "com.example.worker", FALSE)

ServiceLists == {<<>>, <<Gateway>>, <<ViteUi, Worker>>, <<Gateway, Enterprise, ViteUi>>}

NoCheck == [status |-> "none", action |-> "none", services |-> <<>>, restart_results |-> <<>>]

\* the object after __init__; a dict is the sequence of its entries in
\* insertion order, each entry carrying its key as name
WatchdogObject(services, max_retries) ==
    [pc |-> "idle", services |-> services, max_retries |-> max_retries,
     probes |-> <<>>, service_results |-> <<>>, down_services |-> <<>>,
     attempts |-> <<>>, verify |-> <<>>, recovered |-> FALSE, stopped |-> FALSE,
     restart_results |-> <<>>, result |-> NoCheck, history |-> <<>>, checks |-> 0,
     exit_code |-> 0]

\* results[key] = entry
DictPut(d, entry) ==
    IF \E i \in 1..Len(d) : d[i].name = entry.name
    THEN [i \in 1..Len(d) |-> IF d[i].name = entry.name THEN entry ELSE d[i]]
    ELSE Append(d, entry)

\* one probe per service, in list order, kept under the service's name
RECURSIVE check_all_services(_, _)
check_all_services(services, probes) ==
    IF services = <<>> THEN <<>>
    ELSE LET n == Len(services)
             health == [name |-> services[n].name, healthy |-> probes[n],
                        critical |-> services[n].critical]
         IN  DictPut(check_all_services(SubSeq(services, 1, n - 1), SubSeq(probes, 1, n - 1)),
                     health)

\* next(s for s in self.services if s["name"] == name)
FirstService(services, name) ==
    services[CHOOSE i \in 1..Len(services) :
                /\ services[i].name = name
                /\ \A j \in 1..(i - 1) : services[j].name # name]

\* what restart_service can return for a service
restart_service(service) ==
    IF service.launchd_label = ""
    THEN {[method |-> "no_launchd", success |-> FALSE]}
    ELSE {[method |-> "kickstart", success |-> TRUE],
          [method |-> "bootout+bootstrap", success |-> TRUE],
          [method |-> "bootout+bootstrap", success |-> FALSE],
          [method |-> "all_failed", success |-> FALSE]}

OverallStatusAnyRecovered(restart_results) ==
    IF \E i \in 1..Len(restart_results) : restart_results[i].recovered THEN "recovered"
    ELSE IF \E i \in 1..Len(restart_results) :
                ~restart_results[i].recovered /\ restart_results[i].critical
         THEN "critical_down"
         ELSE "degraded"

OverallStatus(restart_results) ==
    LET any_critical_down == \E i \in 1..Len(restart_results) :
                                ~restart_results[i].recovered /\ restart_results[i].critical
        all_recovered == \A i \in 1..Len(restart_results) : restart_results[i].recovered
    IN  IF all_recovered THEN "recovered"
        ELSE IF any_critical_down THEN "critical_down"
        ELSE "degraded"

OverallAction(restart_results) ==
    IF \A i \in 1..Len(restart_results) : restart_results[i].recovered
    THEN "restarted" ELSE "escalate"

\* a command that also takes critical_down for down
gateway_watchdog_exit_critical(check) ==
    IF check.status \in {"down", "critical_down"} THEN 2 ELSE 0

\* the gateway-watchdog command: sys.exit(2) when the status is "down"
gateway_watchdog_exit(check) == IF check.status = "down" THEN 2 ELSE 0

\* _save_state: the history with the result appended, its last 50 kept; a
\* write that fails leaves the state file as it was.  Of a stored result the
\* state file of the model keeps the status and the action.
WatchdogSave(history, check, saves) ==
    IF saves
    THEN LastN(Append(history, [status |-> check.status, action |-> check.action]),
               WatchdogHistory)
    ELSE history

\* run_check up to the first restart loop: probe everything; return at once
\* when every entry is healthy
RunCheckBegin(probes, saves) ==
    /\ watchdog.pc = "idle"
    /\ watchdog.checks < MaxChecks
    /\ LET service_results == check_all_services(watchdog.services, probes)
           all_healthy == \A i \in 1..Len(service_results) : service_results[i].healthy
           check == [status |-> "healthy", action |-> "none",
                     services |-> service_results, restart_results |-> <<>>]
           begun == [watchdog EXCEPT !.probes = probes,
                                     !.result = NoCheck,
                                     !.service_results = service_results,
                                     !.restart_results = <<>>,
                                     !.attempts = <<>>, !.verify = <<>>,
                                     !.recovered = FALSE, !.stopped = FALSE]
       IN  IF all_healthy
           THEN watchdog' = [begun EXCEPT !.down_services = <<>>,
                                          !.result = check,
                                          !.history = WatchdogSave(@, check, saves),
                                          !.checks = @ + 1,
                                          !.exit_code = gateway_watchdog_exit(check)]
           ELSE /\ saves
                /\ watchdog' = [begun EXCEPT
                       !.pc = "restarting",
                       !.down_services = SelectSeq(service_results, LAMBDA h : ~h.healthy)]
    /\ UNCHANGED <<dir, inodes, workspace, gatewayLog, pc, config, loc, result, exitCode,
                   clock, budget, recorded, governed, applied, saved, antiIdle, loops>>

\* a retry loop that goes on after a service that launchd does not manage
RestartAttemptNoBreak(restart_result, healthy) ==
    /\ watchdog.pc = "restarting"
    /\ watchdog.down_services # <<>>
    /\ ~watchdog.recovered
    /\ Len(watchdog.attempts) < watchdog.max_retries
    /\ LET svc == FirstService(watchdog.services, Head(watchdog.down_services).name)
       IN  /\ restart_result \in restart_service(svc)
           /\ restart_result.success \/ ~healthy
           /\ watchdog' = [watchdog EXCEPT
                  !.attempts = Append(@, restart_result),
                  !.verify = Append(@, IF ~restart_result.success THEN "none"
                                       ELSE IF healthy THEN "healthy" ELSE "unhealthy"),
                  !.recovered = restart_result.success /\ healthy]
    /\ UNCHANGED <<dir, inodes, workspace, gatewayLog, pc, config, loc, result, exitCode,
                   clock, budget, recorded, governed, applied, saved, antiIdle, loops>>

\* one turn of the retry loop for the first service still to handle
RestartAttempt(restart_result, healthy) ==
    /\ watchdog.pc = "restarting"
    /\ watchdog.down_services # <<>>
    /\ ~watchdog.recovered
    /\ ~watchdog.stopped
    /\ Len(watchdog.attempts) < watchdog.max_retries
    /\ LET svc == FirstService(watchdog.services, Head(watchdog.down_services).name)
       IN  /\ restart_result \in restart_service(svc)
           /\ restart_result.success \/ ~healthy
           /\ watchdog' = [watchdog EXCEPT
                  !.attempts = Append(@, restart_result),
                  !.verify = Append(@, IF ~restart_result.success THEN "none"
                                       ELSE IF healthy THEN "healthy" ELSE "unhealthy"),
                  !.recovered = restart_result.success /\ healthy,
                  !.stopped = ~restart_result.success /\ restart_result.method = "no_launchd"]
    /\ UNCHANGED <<dir, inodes, workspace, gatewayLog, pc, config, loc, result, exitCode,
                   clock, budget, recorded, governed, applied, saved, antiIdle, loops>>

\* the retry loop is over for the service: restart_results[name] = {...};
\* verify is history, the probe that followed each attempt
ServiceDone ==
    /\ watchdog.pc = "restarting"
    /\ watchdog.down_services # <<>>
    /\ \/ watchdog.recovered
       \/ watchdog.stopped
       \/ Len(watchdog.attempts) >= watchdog.max_retries
    /\ LET name == Head(watchdog.down_services).name
           svc == FirstService(watchdog.services, name)
           entry == [name |-> name, recovered |-> watchdog.recovered,
                     attempts |-> watchdog.attempts,
                     total_attempts |-> Len(watchdog.attempts),
                     critical |-> svc.critical, verify |-> watchdog.verify]
       IN  watchdog' = [watchdog EXCEPT !.restart_results = DictPut(@, entry),
                                        !.down_services = Tail(@),
                                        !.attempts = <<>>, !.verify = <<>>,
                                        !.recovered = FALSE, !.stopped = FALSE]
    /\ UNCHANGED <<dir, inodes, workspace, gatewayLog, pc, config, loc, result, exitCode,
                   clock, budget, recorded, governed, applied, saved, antiIdle, loops>>

\* every down service has been handled: the overall status, saved and returned
RunCheckReturn(saves) ==
    /\ watchdog.pc = "restarting"
    /\ watchdog.down_services = <<>>
    /\ LET check == [status |-> OverallStatus(watchdog.restart_results),
                     action |-> OverallAction(watchdog.restart_results),
                     services |-> watchdog.service_results,
                     restart_results |-> watchdog.restart_results]
       IN  watchdog' = [watchdog EXCEPT !.pc = "idle",
                                        !.result = check,
                                        !.history = WatchdogSave(@, check, saves),
                                        !.checks = @ + 1,
                                        !.exit_code = gateway_watchdog_exit(check)]
    /\ UNCHANGED <<dir, inodes, workspace, gatewayLog, pc, config, loc, result, exitCode,
                   clock, budget, recorded, governed, applied, saved, antiIdle, loops>>

InitWatchdog ==
    /\ InitGovernor({MissingText}, 0)
    /\ \E services \in ServiceLists, max_retries \in 0..MaxRetries :
          watchdog = WatchdogObject(services, max_retries)
    /\ antiIdle = NoAntiIdle
    /\ loops = NoLoops

NextWatchdog ==
    \/ \E probes \in [1..Len(watchdog.services) -> BOOLEAN], saves \in BOOLEAN :
          RunCheckBegin(probes, saves)
    \/ \E restart_result \in [method : {"no_launchd", "kickstart", "bootout+bootstrap",
                                        "all_failed"}, success : BOOLEAN],
          healthy \in BOOLEAN : RestartAttempt(restart_result, healthy)
    \/ ServiceDone
    \/ \E saves \in BOOLEAN : RunCheckReturn(saves)

SpecWatchdog == InitWatchdog /\ [][NextWatchdog]_vars

\* the services whose first probe in the last run_check was not healthy
InitiallyDown == {i \in 1..Len(watchdog.services) : ~watchdog.probes[i]}

\* a restart attempt on services[i] reported success and the probe after it
\* was healthy
RecoveredByRestart(i) ==
    \E k \in 1..Len(watchdog.result.restart_results) :
        LET r == watchdog.result.restart_results[k]
        IN  /\ r.name = watchdog.services[i].name
            /\ \E a \in 1..Len(r.attempts) : r.attempts[a].success /\ r.verify[a] = "healthy"

\* C18: run_check returns 'healthy' with action 'none' exactly when every
\* service's first probe was healthy; otherwise 'recovered' with action
\* 'restarted' exactly when every service that was down recovered, else
\* 'critical_down' when a critical service did not recover, else 'degraded',
\* both with action 'escalate'; and a service counts as recovered only when a
\* restart attempt reported success and the probe after it was healthy.
C18_StatusFollowsProbesAndRestarts ==
    (watchdog.pc = "idle" /\ watchdog.checks > 0) =>
        LET check == watchdog.result
        IN  /\ (check.status = "healthy") <=> (InitiallyDown = {})
            /\ (check.action = "none") <=> (InitiallyDown = {})
            /\ InitiallyDown # {} =>
                  IF \A i \in InitiallyDown : RecoveredByRestart(i)
                  THEN check.status = "recovered" /\ check.action = "restarted"
                  ELSE /\ check.action = "escalate"
                       /\ check.status =
                             IF \E i \in InitiallyDown :
                                   watchdog.services[i].critical /\ ~RecoveredByRestart(i)
                             THEN "critical_down" ELSE "degraded"
            /\ \A k \in 1..Len(check.restart_results) :
                  LET r == check.restart_results[k]
                  IN  r.recovered <=>
                         \E a \in 1..Len(r.attempts) :
                            r.attempts[a].success /\ r.verify[a] = "healthy"

\* C18 witness: a check ends 'degraded' although one service recovered on its
\* second restart attempt
C18_Witness ==
    /\ watchdog.pc = "idle"
    /\ watchdog.checks > 0
    /\ watchdog.result.status = "degraded"
    /\ \E k \in 1..Len(watchdog.result.restart_results) :
          /\ watchdog.result.restart_results[k].recovered
          /\ watchdog.result.restart_results[k].total_attempts = 2

----------------------------------------------------------------------------
(* The anti-idling system: an activity log, an idle rate computed from it, *)
(* and intervention callbacks run when the rate is above the threshold.    *)
(* A callback is what it does when called: "ok" returns, "raises" raises   *)
(* an Exception.                                                           *)

CallbackKinds == {"ok", "raises"}

\* idle_threshold values a system is constructed with: 0.1 (the default),
\* 0.3, 0.5 and 1.0
Thresholds == {FDivInt(1, 10), FDivInt(3, 10), FDivInt(1, 2), FInt(1)}

\* activities given to log_activity; "unknown" stands for no type key
Activities ==
    {[duration |-> 43200, is_productive |-> TRUE, type |-> "coding"],
     [duration |-> 60480, is_productive |-> TRUE, type |-> "research"],
     [duration |-> 86400, is_productive |-> TRUE, type |-> "unknown"],
     [duration |-> 43200, is_productive |-> FALSE, type |-> "break"]}

SleepSeconds == {43200, 43201}

ReturnsNone == [kind |-> "None", names |-> <<>>]

NoCall == [called |-> FALSE, idle_rate |-> FInt(0), triggered |-> FALSE,
           callbacks |-> <<>>, invoked |-> <<>>, propagated |-> FALSE,
           emergency_actions |-> <<>>, returned |-> ReturnsNone]

\* the object after __init__; registered is history: the action names for
\* which register_action_handler returned; last is history: the last
\* detect_and_interrupt_idle_state call
AntiIdlingSystem(idle_threshold) ==
    [pc |-> "idle", idle_threshold |-> idle_threshold, activity_log |-> <<>>,
     intervention_callbacks |-> <<>>, now |-> 0, events |-> 0, registered |-> {},
     error |-> "none", last |-> NoCall]

RECURSIVE productive_time(_, _, _)
productive_time(activity_log, current_time, time_window) ==
    IF activity_log = <<>> THEN 0
    ELSE LET activity == Head(activity_log)
         IN  (IF current_time - activity.timestamp <= time_window /\ activity.is_productive
              THEN activity.duration ELSE 0)
             + productive_time(Tail(activity_log), current_time, time_window)

\* max(0.0, min(1.0, 1 - productive_time / total_time)); durations are not
\* negative, so the rate is at most 1, and it is below 0 only when the
\* productive time exceeds the window
calculate_idle_rate(activity_log, current_time, time_window) ==
    LET productive == productive_time(activity_log, current_time, time_window)
    IN  IF productive > time_window THEN FInt(0)
        ELSE FSub(FInt(1), FDiv(productive, time_window))

FullPool ==
    <<"start_research_sprint", "design_experimental_prototype",
      "initiate_user_feedback_loop", "conduct_strategic_analysis",
      "explore_new_skill_development">>

ContrastMap(activity_type) ==
    CASE activity_type = "research" ->
            <<"design_experimental_prototype", "initiate_user_feedback_loop">>
      [] activity_type = "coding" ->
            <<"initiate_user_feedback_loop", "conduct_strategic_analysis">>
      [] activity_type = "meeting" ->
            <<"start_research_sprint", "explore_new_skill_development">>
      [] activity_type = "browsing" ->
            <<"start_research_sprint", "design_experimental_prototype">>
      [] activity_type = "break" ->
            <<"start_research_sprint", "conduct_strategic_analysis">>
      [] OTHER -> <<>>

TypeCount(recent, activity_type) ==
    Cardinality({i \in 1..Len(recent) : recent[i].type = activity_type})

\* max(type_counts, key=...): the first type, in order of first appearance,
\* that no other type outnumbers
DominantType(recent) ==
    recent[CHOOSE i \in 1..Len(recent) :
              /\ \A j \in 1..Len(recent) :
                    TypeCount(recent, recent[j].type) <= TypeCount(recent, recent[i].type)
              /\ \A j \in 1..(i - 1) :
                    TypeCount(recent, recent[j].type) < TypeCount(recent, recent[i].type)].type

\* the list without repetitions, first occurrences kept in order
RECURSIVE Unique(_)
Unique(xs) ==
    IF xs = <<>> THEN <<>>
    ELSE LET n == Len(xs)
             front == Unique(SubSeq(xs, 1, n - 1))
         IN  IF \E i \in 1..Len(front) : front[i] = xs[n] THEN front
             ELSE Append(front, xs[n])

generate_emergency_actions(activity_log) ==
    IF activity_log = <<>> THEN FullPool
    ELSE LET recent == LastN(activity_log, RecentActivities)
             dominant_type == DominantType(recent)
             stuck == FLess(FDivInt(6, 10),
                            FDivInt(TypeCount(recent, dominant_type), Len(recent)))
             suggestions == ContrastMap(dominant_type) \o
                            (IF stuck THEN <<"conduct_strategic_analysis",
                                             "explore_new_skill_development">>
                             ELSE <<>>)
         IN  IF Unique(suggestions) = <<>> THEN <<FullPool[1]>> ELSE Unique(suggestions)

\* idle_rate >= self.idle_threshold
TriggeredAtThreshold(idle_rate, idle_threshold) == ~FLess(idle_rate, idle_threshold)

\* idle_rate > self.idle_threshold
Triggered(idle_rate, idle_threshold) == FLess(idle_threshold, idle_rate)

\* for callback in callbacks[i:]: try: callback() except Exception: log it.
\* invoked lists the callbacks called, by their place in the list
RECURSIVE RunCallbacks(_, _)
RunCallbacks(callbacks, i) ==
    IF i > Len(callbacks) THEN [invoked |-> <<>>, propagated |-> FALSE]
    ELSE LET rest == RunCallbacks(callbacks, i + 1)
         IN  IF callbacks[i] = "raises"
             THEN [invoked |-> <<i>> \o rest.invoked, propagated |-> rest.propagated]
             ELSE [invoked |-> <<i>> \o rest.invoked, propagated |-> rest.propagated]

\* log_activity: the entry stamped with the current time, the last 100 kept
LogActivity(activity) ==
    /\ antiIdle.pc = "idle"
    /\ antiIdle.events < MaxIdleEvents
    /\ LET entry == [duration |-> activity.duration,
                     is_productive |-> activity.is_productive,
                     type |-> activity.type, timestamp |-> antiIdle.now]
       IN  antiIdle' = [antiIdle EXCEPT
               !.activity_log = LastN(Append(@, entry), ActivityLogCap),
               !.events = @ + 1, !.error = "none"]
    /\ UNCHANGED <<dir, inodes, workspace, gatewayLog, pc, config, loc, result, exitCode,
                   clock, budget, recorded, governed, applied, saved, watchdog, loops>>

RegisterInterventionCallback(callback) ==
    /\ antiIdle.pc = "idle"
    /\ antiIdle.events < MaxIdleEvents
    /\ antiIdle' = [antiIdle EXCEPT !.intervention_callbacks = Append(@, callback),
                                    !.events = @ + 1, !.error = "none"]
    /\ UNCHANGED <<dir, inodes, workspace, gatewayLog, pc, config, loc, result, exitCode,
                   clock, budget, recorded, governed, applied, saved, watchdog, loops>>

\* the class has no register_action_handler: the call raises AttributeError
RegisterActionHandler(action_name) ==
    /\ antiIdle.pc = "idle"
    /\ antiIdle' = [antiIdle EXCEPT !.error = "AttributeError"]
    /\ UNCHANGED <<dir, inodes, workspace, gatewayLog, pc, config, loc, result, exitCode,
                   clock, budget, recorded, governed, applied, saved, watchdog, loops>>

\* time passes between two calls
Sleep(seconds) ==
    /\ antiIdle.pc = "idle"
    /\ antiIdle.events < MaxIdleEvents
    /\ antiIdle' = [antiIdle EXCEPT !.now = @ + seconds, !.events = @ + 1]
    /\ UNCHANGED <<dir, inodes, workspace, gatewayLog, pc, config, loc, result, exitCode,
                   clock, budget, recorded, governed, applied, saved, watchdog, loops>>

\* detect_and_interrupt_idle_state: the idle rate over the last 24 hours;
\* above the threshold, every callback is called and the emergency actions
\* are generated and logged.  The function has no return statement.
detect_and_interrupt_idle_state(self) ==
    LET idle_rate == calculate_idle_rate(self.activity_log, self.now, DayWindow)
        triggered == Triggered(idle_rate, self.idle_threshold)
        ran == IF triggered THEN RunCallbacks(self.intervention_callbacks, 1)
               ELSE [invoked |-> <<>>, propagated |-> FALSE]
        emergency_actions == IF triggered
                             THEN generate_emergency_actions(self.activity_log)
                             ELSE <<>>
    IN  [self EXCEPT
            !.error = IF ran.propagated THEN "Exception" ELSE "none",
            !.last = [called |-> TRUE, idle_rate |-> idle_rate,
                      triggered |-> triggered,
                      callbacks |-> self.intervention_callbacks,
                      invoked |-> ran.invoked, propagated |-> ran.propagated,
                      emergency_actions |-> emergency_actions,
                      returned |-> ReturnsNone]]

DetectAndInterruptIdleState ==
    /\ antiIdle.pc = "idle"
    /\ antiIdle' = detect_and_interrupt_idle_state(antiIdle)
    /\ UNCHANGED <<dir, inodes, workspace, gatewayLog, pc, config, loc, result, exitCode,
                   clock, budget, recorded, governed, applied, saved, watchdog, loops>>

InitAntiIdle ==
    /\ InitGovernor({MissingText}, 0)
    /\ watchdog = NoWatchdog
    /\ \E idle_threshold \in Thresholds : antiIdle = AntiIdlingSystem(idle_threshold)
    /\ loops = NoLoops

NextAntiIdle ==
    \/ \E activity \in Activities : LogActivity(activity)
    \/ \E callback \in CallbackKinds : RegisterInterventionCallback(callback)
    \/ \E action_name \in {FullPool[i] : i \in 1..Len(FullPool)} :
          RegisterActionHandler(action_name)
    \/ \E seconds \in SleepSeconds : Sleep(seconds)
    \/ DetectAndInterruptIdleState

SpecAntiIdle == InitAntiIdle /\ [][NextAntiIdle]_vars

\* C19: detect_and_interrupt_idle_state calls the intervention callbacks
\* exactly when the idle rate is strictly above idle_threshold, so not at
\* equality; when it does, every registered callback is called once, in
\* registration order, also after a callback that raised, and no callback's
\* exception reaches the caller.
C19_CallbacksIffAboveThreshold ==
    antiIdle.last.called =>
        LET last == antiIdle.last
        IN  /\ last.invoked =
                  IF FLess(antiIdle.idle_threshold, last.idle_rate)
                  THEN [i \in 1..Len(last.callbacks) |-> i]
                  ELSE <<>>
            /\ ~last.propagated

\* C19 witness: above the threshold, a callback that raises is followed by
\* one that returns, and both were called
C19_Witness ==
    /\ antiIdle.last.called
    /\ antiIdle.last.triggered
    /\ antiIdle.last.callbacks = <<"raises", "ok">>
    /\ antiIdle.last.invoked = <<1, 2>>

\* C20: detect_and_interrupt_idle_state returns a list, the names of the
\* emergency actions whose registered handler was called and did not raise:
\* the empty list when the idle rate is not above the threshold, and never
\* an action for which no handler is registered.
C20_ReturnsExecutedActions ==
    antiIdle.last.called =>
        LET returned == antiIdle.last.returned
        IN  /\ returned.kind = "list"
            /\ ~antiIdle.last.triggered => returned.names = <<>>
            /\ \A i \in 1..Len(returned.names) :
                  /\ returned.names[i] \in antiIdle.registered
                  /\ \E j \in 1..Len(antiIdle.last.emergency_actions) :
                        antiIdle.last.emergency_actions[j] = returned.names[i]

----------------------------------------------------------------------------
(* One process audits and proposes over workspaces of every size and over  *)
(* configs that set, or leave out, the two bootstrap caps.                 *)

CapsConfig(primary, caps) == Defaults(("model" :> JDict("primary" :> JStr(primary))) @@ caps)

BootstrapTexts ==
    {ConfigText("json", CfgExpensive, "lf"),
     ConfigText("json", CfgNoModel, "lf"),
     ConfigText("json", CapsConfig("ollama/llama3.3",
                    ("bootstrapMaxChars" :> JInt(8000))
                 @@ ("bootstrapTotalMaxChars" :> JInt(30000))), "lf"),
     ConfigText("json", CapsConfig("claude-sonnet-4-5",
                    ("bootstrapMaxChars" :> JInt(8001))
                 @@ ("bootstrapTotalMaxChars" :> JInt(30000))), "lf"),
     ConfigText("json", CapsConfig("claude-opus-4-6",
                    ("bootstrapMaxChars" :> JInt(8000))
                 @@ ("bootstrapTotalMaxChars" :> JInt(30001))), "lf"),
     MissingText}

BootstrapWorkspaces ==
    {NoWorkspace,
     [NoWorkspace EXCEPT !["AGENTS.md"] = 5],
     [NoWorkspace EXCEPT !["AGENTS.md"] = 3001],
     [NoWorkspace EXCEPT !["AGENTS.md"] = 3000, !["SOUL.md"] = 3000],
     [NoWorkspace EXCEPT !["AGENTS.md"] = 30000],
     [NoWorkspace EXCEPT !["MEMORY.md"] = 30001],
     [NoWorkspace EXCEPT !["AGENTS.md"] = 3001, !["SOUL.md"] = 9000, !["TOOLS.md"] = 6000,
                         !["IDENTITY.md"] = 14000, !["USER.md"] = 3000],
     [NoWorkspace EXCEPT !["AGENTS.md"] = 12000, !["SOUL.md"] = 12000, !["TOOLS.md"] = 12000,
                         !["IDENTITY.md"] = 12000]}

InitBootstrap ==
    /\ \E text \in BootstrapTexts :
          IF text.kind = "missing"
          THEN /\ dir = [q \in Paths |-> 0]
               /\ inodes = [i \in Inodes |-> <<>>]
          ELSE /\ dir = [q \in Paths |-> IF q = "cfg" THEN 1 ELSE 0]
               /\ inodes = [i \in Inodes |-> IF i = 1 THEN Blocks(text) ELSE <<>>]
    /\ workspace \in BootstrapWorkspaces
    /\ gatewayLog \in GatewayLogs
    /\ pc = [p \in Procs |-> "new"]
    /\ config = [p \in Procs |-> EmptyDict]
    /\ loc = [p \in Procs |-> NoLoc]
    /\ result = [p \in Procs |-> NoResult]
    /\ exitCode = [p \in Procs |-> 0]
    /\ clock = 1
    /\ budget = MaxEvents
    /\ recorded = <<>>
    /\ governed = <<>>
    /\ applied = NoApply
    /\ saved = NoSave
    /\ watchdog = NoWatchdog
    /\ antiIdle = NoAntiIdle
    /\ loops = NoLoops

NextBootstrap ==
    \/ Construct(1)
    \/ Audit(1)
    \/ \E strategy \in Strategies : GenerateOptimizedConfig(1, strategy)

SpecBootstrap == InitBootstrap /\ [][NextBootstrap]_vars

BootstrapNames == {BOOTSTRAP_FILES[i] : i \in 1..Len(BOOTSTRAP_FILES)}

\* the files of more than 3,000 characters
BigFiles == {f \in BootstrapNames : workspace[f] > 3000}

ShrinkRecommendations(res) ==
    {i \in 1..Len(res.recommendations) : res.recommendations[i].id = "shrink_bootstrap"}

\* C21: whenever a bootstrap file has more than 3,000 characters, the audit
\* holds the medium-impact recommendation shrink_bootstrap, 20 percent, that
\* names at most three files, the largest of those over 3,000; the warning
\* finding bootstrap_bloat is there exactly when the total is over 30,000.
C21_ShrinkWheneverFileIsBig ==
    result[1].op = "audit" =>
        /\ BigFiles # {} =>
              \E i \in ShrinkRecommendations(result[1]) :
                  LET rec == result[1].recommendations[i]
                      named == {rec.files[k] : k \in 1..Len(rec.files)}
                  IN  /\ rec.impact = "medium"
                      /\ rec.savings_pct = 20
                      /\ Len(rec.files) <= 3
                      /\ named \subseteq BigFiles
                      /\ \A f \in named, g \in BigFiles \ named : workspace[f] >= workspace[g]
        /\ HasFinding(result[1], "bootstrap_bloat", "warning")
              <=> result[1].bootstrap_total_chars > 30000
        /\ HasFindingId(result[1], "bootstrap_bloat")
              => HasFinding(result[1], "bootstrap_bloat", "warning")

\* the two caps as the audit reads them
ConfiguredMaxPerFile ==
    _get_nested(config[1], <<"agents", "defaults", "bootstrapMaxChars">>, JInt(20000)).n

ConfiguredTotalMax ==
    _get_nested(config[1], <<"agents", "defaults", "bootstrapTotalMaxChars">>, JInt(150000)).n

\* C22: the audit holds the warning finding high_bootstrap_cap whenever the
\* per-file cap (bootstrapMaxChars, 20000 when not set) is over 8000 or the
\* total cap (bootstrapTotalMaxChars, 150000 when not set) is over 30000, and
\* no recommendation goes with it.
C22_HighCapWheneverEitherCapIsHigh ==
    result[1].op = "audit" =>
        /\ (ConfiguredMaxPerFile > 8000 \/ ConfiguredTotalMax > 30000)
              => HasFinding(result[1], "high_bootstrap_cap", "warning")
        /\ ~HasRecommendation(result[1], "high_bootstrap_cap")

\* what the last proposal sets under agents.defaults
ProposedDefaults == result[1].patch.m["agents"].m["defaults"].m

\* C23: the conservative proposal never sets agents.defaults.model, always
\* sets compaction.mode to "default" and bootstrapMaxChars to 8000, and sets
\* agents.defaults.heartbeat.model exactly when the current model is in the
\* expensive tier.
C23_ConservativeKeepsModel ==
    (result[1].op = "generate_optimized_config" /\ result[1].strategy = "conservative") =>
        /\ "model" \notin DOMAIN ProposedDefaults
        /\ ProposedDefaults["compaction"] = JDict("mode" :> JStr("default"))
        /\ ProposedDefaults["bootstrapMaxChars"] = JInt(8000)
        /\ ("heartbeat" \in DOMAIN ProposedDefaults
               /\ "model" \in DOMAIN ProposedDefaults["heartbeat"].m)
              <=> result[1].current_model \in
                     {m \in DOMAIN MODEL_COSTS : MODEL_COSTS[m] >= 1000}

\* C23 witness: a conservative proposal for a config that names no model,
\* the gateway log naming an expensive one, and the heartbeat model is set
C23_Witness ==
    /\ result[1].op = "generate_optimized_config"
    /\ result[1].strategy = "conservative"
    /\ _get_nested(config[1], <<"agents", "defaults", "model", "primary">>, JNull) = JNull
    /\ "heartbeat" \in DOMAIN ProposedDefaults

----------------------------------------------------------------------------
(* The watchdog's retry loop.  A call that has begun goes on: each probe   *)
(* and each launchctl call has a timeout and each sleep ends.              *)

RunCheckStep ==
    \/ \E restart_result \in [method : {"no_launchd", "kickstart", "bootout+bootstrap",
                                        "all_failed"}, success : BOOLEAN],
          healthy \in BOOLEAN : RestartAttempt(restart_result, healthy)
    \/ ServiceDone
    \/ \E saves \in BOOLEAN : RunCheckReturn(saves)

SpecWatchdogLive == InitWatchdog /\ [][NextWatchdog]_vars /\ WF_vars(RunCheckStep)

\* the entries of the last finished check
RestartEntries ==
    {watchdog.result.restart_results[k] : k \in 1..Len(watchdog.result.restart_results)}

\* no attempt follows one whose probe was healthy
StopsAtFirstHealthy(r) == \A a \in 1..(Len(r.attempts) - 1) : r.verify[a] # "healthy"

\* every service that was down has its entry, with the attempts counted
EveryDownServiceCounted ==
    /\ \A i \in InitiallyDown : \E r \in RestartEntries : r.name = watchdog.services[i].name
    /\ \A r \in RestartEntries : r.total_attempts = Len(r.attempts)

BoundedRetries ==
    /\ watchdog.pc = "restarting" => Len(watchdog.attempts) <= watchdog.max_retries
    /\ (watchdog.pc = "idle" /\ watchdog.checks > 0) =>
          /\ EveryDownServiceCounted
          /\ \A r \in RestartEntries :
                /\ r.total_attempts <= watchdog.max_retries
                /\ FirstService(watchdog.services, r.name).launchd_label = ""
                      => r.total_attempts = Min2(1, watchdog.max_retries)
                /\ StopsAtFirstHealthy(r)

----------------------------------------------------------------------------
(* The merge, over pairs of dictionaries up to three levels deep.          *)

DictsOver(keys, values) == UNION {[S -> values] : S \in SUBSET keys}

MergeValues ==
    {JInt(1), JStr("s")}
    \cup {JDict(d) : d \in DictsOver({"x", "y"}, {JInt(1), JInt(2)})}
    \cup {JDict("x" :> JDict("x" :> JInt(1))), JDict("x" :> JDict("y" :> JInt(2)))}

MergeDicts == DictsOver({"a", "b"}, MergeValues)

InitMerge ==
    /\ dir = [q \in Paths |-> 0]
    /\ inodes = [i \in Inodes |-> <<>>]
    /\ workspace = NoWorkspace
    /\ gatewayLog = NoLog
    /\ pc = [p \in Procs |-> "new"]
    /\ config = [p \in Procs |-> EmptyDict]
    /\ loc = [p \in Procs |-> NoLoc]
    /\ \E base \in MergeDicts, override \in MergeDicts :
          result = [p \in Procs |->
                       IF p = 1 THEN [op |-> "dictionaries", base |-> base,
                                      override |-> override]
                       ELSE NoResult]
    /\ exitCode = [p \in Procs |-> 0]
    /\ clock = 1
    /\ budget = 0
    /\ recorded = <<>>
    /\ governed = <<>>
    /\ applied = NoApply
    /\ saved = NoSave
    /\ watchdog = NoWatchdog
    /\ antiIdle = NoAntiIdle
    /\ loops = NoLoops

NextMerge == DeepMerge(1)

SpecMerge == InitMerge /\ [][NextMerge]_vars

\* the rule of the claim, key by key
RECURSIVE MergedByRule(_, _, _)
MergedByRule(merged, base, override) ==
    /\ DOMAIN merged = DOMAIN base \cup DOMAIN override
    /\ \A key \in DOMAIN merged :
          IF key \notin DOMAIN override THEN merged[key] = base[key]
          ELSE IF key \notin DOMAIN base THEN merged[key] = override[key]
          ELSE IF base[key].t = "dict" /\ override[key].t = "dict"
               THEN /\ merged[key].t = "dict"
                    /\ MergedByRule(merged[key].m, base[key].m, override[key].m)
               ELSE merged[key] = override[key]

\* C25: _deep_merge(base, override) leaves base as it was and returns a map
\* where a key only in base keeps base's value, a key only in override takes
\* override's, a key in both whose two values are maps holds their merge by
\* the same rule, and in every other overlap override's value wins.
C25_DeepMergeRule ==
    result[1].op = "_deep_merge" =>
        /\ result[1].base = result[1].base_before
        /\ MergedByRule(result[1].value, result[1].base_before, result[1].override_before)

\* C25 witness: both dictionaries hold a map under "a", each with a key the
\* other lacks, and a map one level further down is merged too
C25_Witness ==
    /\ result[1].op = "_deep_merge"
    /\ result[1].base_before = ("a" :> JDict("x" :> JDict("x" :> JInt(1))))
    /\ result[1].override_before =
          (("a" :> JDict("x" :> JDict("y" :> JInt(2)))) @@ ("b" :> JStr("s")))
    /\ result[1].value =
          (("a" :> JDict("x" :> JDict(("x" :> JInt(1)) @@ ("y" :> JInt(2)))))
           @@ ("b" :> JStr("s")))

\* the key paths and values another writer put in the live config file after
\* the snapshot was taken, and that the patch of the last call does not mention
ForeignChanges ==
    {leaf \in Leaves(ParseConfig(applied.pre), <<>>) :
        /\ _get_nested(applied.mem_before, leaf[1], JNull) # leaf[2]
        /\ ~Mentions(applied.patch, leaf[1])}

\* C26: apply_config merges the patch into the snapshot the instance holds,
\* not into the live file's content at the time of the call: what another
\* writer changed in the live file since the snapshot is absent from the live
\* file after a successful apply, and is in the backup that call wrote.
C26_MergesIntoStaleSnapshot ==
    (applied.outcome = "ok" /\ applied.backup /\ Complete(applied.pre)) =>
        /\ ParseConfig(applied.post) =
              JDict(_deep_merge(applied.mem_before.m, applied.patch.m))
        /\ \A leaf \in ForeignChanges :
              /\ _get_nested(ParseConfig(applied.post), leaf[1], JNull) # leaf[2]
              /\ _get_nested(ParseConfig(applied.bak), leaf[1], JNull) = leaf[2]

\* C26 witness: another writer's change was in the live file when a backed-up
\* apply began, and the apply succeeded
C26_Witness ==
    /\ applied.outcome = "ok"
    /\ applied.backup
    /\ Complete(applied.pre)
    /\ ForeignChanges # {}

----------------------------------------------------------------------------
(* One governor instance proposes a strategy, applies it, audits and       *)
(* governs, over configs that set or leave out the caps and the heartbeat  *)
(* model, while the bootstrap files grow and shrink between the calls.     *)

HeartbeatConfig ==
    Defaults(("model" :> JDict("primary" :> JStr("claude-haiku-4-5")))
          @@ ("heartbeat" :> JDict("model" :> JStr("claude-opus-4-6"))))

Scenario(text, ws, log) == [text |-> text, workspace |-> ws, gatewayLog |-> log]

\* a live config, the bootstrap files and the gateway log at the start
GovernScenarios ==
    {Scenario(ConfigText("json", CfgExpensive, "lf"),
              [NoWorkspace EXCEPT !["AGENTS.md"] = 5], NoLog),
     Scenario(ConfigText("json", CfgNoModel, "lf"), NoWorkspace, NoLog),
     Scenario(ConfigText("json", HeartbeatConfig, "lf"),
              [NoWorkspace EXCEPT !["AGENTS.md"] = 5], NoLog),
     Scenario(MissingText, NoWorkspace, Log(<<"claude-opus-4-6", "gpt-4o-mini">>))}

GovernSizes == {30001}

InitGovern ==
    /\ \E scenario \in GovernScenarios :
          /\ IF scenario.text.kind = "missing"
             THEN /\ dir = [q \in Paths |-> 0]
                  /\ inodes = [i \in Inodes |-> <<>>]
             ELSE /\ dir = [q \in Paths |-> IF q = "cfg" THEN 1 ELSE 0]
                  /\ inodes = [i \in Inodes |->
                                  IF i = 1 THEN Blocks(scenario.text) ELSE <<>>]
          /\ workspace = scenario.workspace
          /\ gatewayLog = scenario.gatewayLog
    /\ pc = [p \in Procs |-> "new"]
    /\ config = [p \in Procs |-> EmptyDict]
    /\ loc = [p \in Procs |-> NoLoc]
    /\ result = [p \in Procs |-> NoResult]
    /\ exitCode = [p \in Procs |-> 0]
    /\ clock = 1
    /\ budget = MaxEvents
    /\ recorded = <<>>
    /\ governed = <<>>
    /\ applied = NoApply
    /\ saved = NoSave
    /\ watchdog = NoWatchdog
    /\ antiIdle = NoAntiIdle
    /\ loops = NoLoops

\* cost-apply: the patch that generate_optimized_config returned is applied,
\* with the backup that apply_config makes by default
ApplyOptimized(p) ==
    /\ result[p].op = "generate_optimized_config"
    /\ ApplyBegin(p, result[p].patch, TRUE)

NextGovern ==
    \/ Construct(1)
    \/ \E strategy \in Strategies : GenerateOptimizedConfig(1, strategy)
    \/ ApplyOptimized(1)
    \/ ApplyBackupWrite(1)
    \/ ApplyTmpOpen(1)
    \/ ApplyTmpWrite(1)
    \/ ApplyReplace(1)
    \/ Audit(1)
    \/ \E label \in Labels : RecordBaseline(1, label)
    \/ RunGovernor(1)
    \/ SaveOpen(1)
    \/ SaveWrite(1)
    \/ SaveReplace(1)
    \/ \E n \in GovernSizes : EditWorkspace("MEMORY.md", n)

SpecGovern == InitGovern /\ [][NextGovern]_vars

\* the last apply_config succeeded with the aggressive or the balanced patch
AppliedStrategy ==
    /\ applied.outcome = "ok"
    /\ applied.patch \in {AggressivePatch, BalancedPatch}

\* bootstrapTotalMaxChars was unset, or above the recommended total
TotalCapWasHigh ==
    _get_nested(applied.mem_before, <<"agents", "defaults", "bootstrapTotalMaxChars">>,
                JInt(DEFAULT_BOOTSTRAP_TOTAL_MAX_CHARS)).n
        > RECOMMENDED_BOOTSTRAP_TOTAL_MAX_CHARS

\* C27: after a successful apply_config of the aggressive or balanced patch
\* the in-memory config equals the content written to the live file; an
\* audit that follows on the same instance has no expensive_model, no
\* weak_compaction and no heartbeat finding, a run_governor that follows has
\* no expensive-model and no compaction alert; high_bootstrap_cap is still
\* found whenever bootstrapTotalMaxChars was unset or above 30000.
C27_StrategyClearsAllButTheCap ==
    AppliedStrategy =>
        /\ config[1] = applied.mem_after
        /\ ParseConfig(applied.post) = applied.mem_after
        /\ result[1].op = "audit" =>
              /\ ~HasFindingId(result[1], "expensive_model")
              /\ ~HasFindingId(result[1], "weak_compaction")
              /\ ~HasFindingId(result[1], "expensive_heartbeat")
              /\ ~HasFindingId(result[1], "heartbeat_inherits_expensive")
              /\ TotalCapWasHigh => HasFindingId(result[1], "high_bootstrap_cap")
        /\ result[1].op = "run_governor" =>
              /\ \A i \in 1..Len(result[1].alerts) :
                    result[1].alerts[i] \notin {"expensive", "compaction"}
              /\ TotalCapWasHigh => result[1].findings_count > 0

\* C27 witness: a config with an expensive model, safeguard compaction and no
\* total cap was patched, and the audit that followed still finds the cap
C27_Witness ==
    /\ AppliedStrategy
    /\ applied.mem_before = CfgExpensive
    /\ result[1].op = "audit"
    /\ HasFindingId(result[1], "high_bootstrap_cap")

\* the baseline a run of the governor compared with: the first one recorded,
\* when it was recorded before the run
BaselineUsed(run) ==
    IF recorded # <<>> /\ recorded[1].timestamp < run.timestamp
    THEN <<recorded[1]>> ELSE <<>>

\* C28: run_governor raises the bloat alert only through the comparison with
\* the baseline: with no baseline recorded, or a baseline whose
\* bootstrap_total_chars is 0, there is no bloat alert whatever the size of
\* the bootstrap files, and the status is healthy exactly when no alert was
\* raised, however many findings the audit has.
C28_BloatOnlyAgainstBaseline ==
    \A i \in 1..Len(governed) :
        LET run == governed[i]
            used == BaselineUsed(run)
            bloat == \E j \in 1..Len(run.alerts) : run.alerts[j] = "bloat"
        IN  /\ (used = <<>> \/ used[1].bootstrap_total_chars = 0) => ~bloat
            /\ bloat => 5 * run.bootstrap_total_chars > 6 * used[1].bootstrap_total_chars
            /\ run.status = "healthy" <=> run.alerts = <<>>

\* C28 witness: a healthy run with findings, over bootstrap files above the
\* recommended total, compared with a baseline of 0 characters
C28_Witness ==
    \E i \in 1..Len(governed) :
        /\ governed[i].status = "healthy"
        /\ governed[i].findings_count > 0
        /\ governed[i].bootstrap_total_chars > RECOMMENDED_BOOTSTRAP_TOTAL_MAX_CHARS
        /\ BaselineUsed(governed[i]) # <<>>
        /\ BaselineUsed(governed[i])[1].bootstrap_total_chars = 0

CheckStatuses == {"healthy", "recovered", "critical_down", "degraded"}

----------------------------------------------------------------------------
(* The periodic loops and their stop requests.  A loop runs in its own     *)
(* thread: flag = True; while flag: body; time.sleep(interval).  stop(),   *)
(* stop_daemon() and the daemon's SIGTERM handler run in another thread,   *)
(* or in the body itself, and only clear the flag.                         *)

\* the default interval of each loop, in seconds
Interval(l) == IF l = "run_periodic_check" THEN 3600 ELSE 7200

\* stop() and stop_daemon(): the flag is cleared, wherever the loop is
Stop(l) ==
    /\ loops' = [loops EXCEPT
           ![l].running = FALSE,
           ![l].stopped_before = @ \/ loops[l].pc = "not_called",
           ![l].stopped_at = IF @ = "none" /\ loops[l].pc \notin {"not_called", "returned"}
                             THEN loops[l].pc ELSE @]
    /\ UNCHANGED <<dir, inodes, workspace, gatewayLog, pc, config, loc, result, exitCode,
                   clock, budget, recorded, governed, applied, saved, watchdog, antiIdle>>

\* SIGTERM, once run_daemon has installed its handler: the flag is cleared
Sigterm ==
    /\ loops["run_daemon"].pc # "not_called"
    /\ Stop("run_daemon")

\* an entry that leaves the flag as it finds it
RunLoopKeepsFlag(l) ==
    /\ loops[l].pc = "not_called"
    /\ loops' = [loops EXCEPT ![l].pc = "test"]
    /\ UNCHANGED <<dir, inodes, workspace, gatewayLog, pc, config, loc, result, exitCode,
                   clock, budget, recorded, governed, applied, saved, watchdog, antiIdle>>

\* run_periodic_check(interval) and run_daemon(...) are called: the first
\* statement sets the flag
RunLoop(l) ==
    /\ loops[l].pc = "not_called"
    /\ loops' = [loops EXCEPT ![l].running = TRUE, ![l].pc = "test"]
    /\ UNCHANGED <<dir, inodes, workspace, gatewayLog, pc, config, loc, result, exitCode,
                   clock, budget, recorded, governed, applied, saved, watchdog, antiIdle>>

\* while flag: the loop goes into its body, or the call returns
LoopTest(l) ==
    /\ loops[l].pc = "test"
    /\ IF loops[l].running
       THEN /\ loops[l].iterations < MaxLoopIterations
            /\ loops' = [loops EXCEPT
                   ![l].pc = "body",
                   ![l].tests_passed_after_stop =
                       IF loops[l].stopped_at # "none" THEN @ + 1 ELSE @]
       ELSE loops' = [loops EXCEPT ![l].pc = "returned"]
    /\ UNCHANGED <<dir, inodes, workspace, gatewayLog, pc, config, loc, result, exitCode,
                   clock, budget, recorded, governed, applied, saved, watchdog, antiIdle>>

Iterated(l, outcome) ==
    [loops EXCEPT ![l].pc = "sleep",
                  ![l].iterations = @ + 1,
                  ![l].last_cycle = outcome,
                  ![l].bodies_after_stop = IF loops[l].stopped_at # "none" THEN @ + 1 ELSE @]

\* the body of run_periodic_check: self.detect_and_interrupt_idle_state()
PeriodicCheck ==
    /\ loops["run_periodic_check"].pc = "body"
    /\ antiIdle' = detect_and_interrupt_idle_state(antiIdle)
    /\ loops' = Iterated("run_periodic_check", "ok")
    /\ UNCHANGED <<dir, inodes, workspace, gatewayLog, pc, config, loc, result, exitCode,
                   clock, budget, recorded, governed, applied, saved, watchdog>>

\* the body of run_daemon: the idle check and the daily review in a try
\* block that logs every Exception; neither of them writes the flag
DaemonCycle(outcome) ==
    /\ loops["run_daemon"].pc = "body"
    /\ loops' = Iterated("run_daemon", outcome)
    /\ UNCHANGED <<dir, inodes, workspace, gatewayLog, pc, config, loc, result, exitCode,
                   clock, budget, recorded, governed, applied, saved, watchdog, antiIdle>>

\* time.sleep(interval), then back to the loop test
LoopSleep(l) ==
    /\ loops[l].pc = "sleep"
    /\ loops' = [loops EXCEPT ![l].pc = "test"]
    /\ antiIdle' = [antiIdle EXCEPT !.now = @ + Interval(l)]
    /\ UNCHANGED <<dir, inodes, workspace, gatewayLog, pc, config, loc, result, exitCode,
                   clock, budget, recorded, governed, applied, saved, watchdog>>

\* a system with a callback that raises and nothing logged, and one with a
\* day of productive work logged
LoopSystems ==
    {[AntiIdlingSystem(FDivInt(1, 10)) EXCEPT !.intervention_callbacks = <<"raises", "ok">>],
     [AntiIdlingSystem(FDivInt(1, 10)) EXCEPT
         !.activity_log = <<[duration |-> 86400, is_productive |-> TRUE,
                             type |-> "coding", timestamp |-> 0]>>]}

InitLoop ==
    /\ InitGovernor({MissingText}, 0)
    /\ watchdog = NoWatchdog
    /\ antiIdle \in LoopSystems
    /\ loops = NoLoops

NextLoop ==
    \/ \E l \in LoopNames : Stop(l)
    \/ Sigterm
    \/ \E l \in LoopNames : RunLoop(l)
    \/ \E l \in LoopNames : LoopTest(l)
    \/ PeriodicCheck
    \/ \E outcome \in {"ok", "raised"} : DaemonCycle(outcome)
    \/ \E l \in LoopNames : LoopSleep(l)

\* a thread that can take a step takes one.  PeriodicCheck is enabled exactly
\* when its thread is at the body, and is the one step that leaves it; its
\* weak fairness is stated on the states
SpecLoop ==
    /\ InitLoop
    /\ [][NextLoop]_vars
    /\ \A l \in LoopNames : WF_vars(LoopTest(l)) /\ WF_vars(LoopSleep(l))
    /\ WF_vars(\E outcome \in {"ok", "raised"} : DaemonCycle(outcome))
    /\ []<>(loops["run_periodic_check"].pc # "body")

\* what holds of a loop in every state
LoopStopSafety(l) ==
    \* the loop returns only after a stop that came once the flag was set
    /\ loops[l].pc = "returned" => loops[l].stopped_at # "none"
    \* a stop that came before the entry is lost: the entry sets the flag
    /\ (loops[l].pc \notin {"not_called", "returned"} /\ loops[l].stopped_at = "none") =>
          loops[l].running
    \* after a stop that came while the loop ran no new iteration begins, and
    \* a body runs only if the stop came between the loop test and the body
    /\ loops[l].tests_passed_after_stop = 0
    /\ loops[l].bodies_after_stop <= (IF loops[l].stopped_at = "body" THEN 1 ELSE 0)

\* C30: a stop ends a periodic loop only if it comes after the loop has set
\* its flag: run_periodic_check and run_daemon set the flag on entry whatever
\* it was, so a stop before the entry is lost and the loop iterates, while a
\* stop that comes while the loop runs makes it return after at most the
\* current iteration and its sleep, with no further iteration.
C30_StopOnlyWhileRunning ==
    /\ [](\A l \in LoopNames : LoopStopSafety(l))
    /\ \A l \in LoopNames :
          (loops[l].stopped_at # "none") ~> (loops[l].pc = "returned")

\* C30 witness: a stop was requested before each loop was entered and none
\* after; both loops have made all their iterations and still run
C30_Witness ==
    \A l \in LoopNames :
        /\ loops[l].stopped_before
        /\ loops[l].stopped_at = "none"
        /\ loops[l].running
        /\ loops[l].iterations = MaxLoopIterations

====
